---------------------------- MODULE Spec2Model ----------------------------
(***************************************************************************)
(* Virtual Lab engine of the MiniLabBox firmware: the signal registry      *)
(* (VirtualWorkspace), the signal variants (Constant, Waveform, Math), the  *)
(* expression compiler and evaluator (MathExpression), and the instrument   *)
(* facades (FunctionGenerator, MathZone, Oscilloscope, Multimeter).         *)
(*                                                                         *)
(* Conventions.                                                            *)
(*  - A float is an exact rational <<n, d>> in lowest terms with d > 0;     *)
(*    NaN is <<0, 0>>.  The values used are small, so float arithmetic on   *)
(*    them is exact; operations whose float result is not a rational (sin   *)
(*    of a non-zero angle, ...) are left undefined, and TLC stops if a run  *)
(*    ever evaluates one.  The square root of a non-square is kept as a     *)
(*    value on which no arithmetic is defined.                              *)
(*  - An Arduino String that the code only compares is a TLA+ string; the   *)
(*    expression text, which the parser reads character by character, is    *)
(*    the sequence of its characters; a message built by concatenation is   *)
(*    the sequence of its parts (<<>> is the empty String).                 *)
(*  - A std::shared_ptr is an address into heap; an object lives in heap    *)
(*    exactly as long as signals_ or an Output refers to it.                *)
(*  - Each operation is a definition that computes, from the current state  *)
(*    and the arguments, what the call returns and the state it leaves;     *)
(*    the action of the same name in capitals makes the call.  What a       *)
(*    nested call returned is the parameter of a local definition (r, e,    *)
(*    conf, ...), which stands for the rest of the function.                *)
(*  - An address carries no meaning: after each call the live objects sit   *)
(*    at 1, 2, ... in the order signals_ and then outputs_ refer to them.   *)
(***************************************************************************)
EXTENDS Integers, Sequences, FiniteSets, TLC

VARIABLES
    heap,           \* address -> signal object (the live shared_ptr targets)
    signals,        \* VirtualWorkspace::signals_ : sequence of addresses
    outputs,        \* FunctionGenerator::outputs_ : sequence of Output
    expressionIds,  \* MathZone::expressionIds_ : sequence of ids
    traces,         \* Oscilloscope::traces_ : sequence of trace configs
    inputs,         \* Multimeter::inputs_ : sequence of input configs
    mathExpression, \* a MathExpression on its own: expression_, root_, variables_
    running,        \* FALSE once a call has exhausted the stack
    last            \* the last call made and what it handed back

vars ==
    <<heap, signals, outputs, expressionIds, traces, inputs, mathExpression,
      running, last>>

(***************************************************************************)
(* Floats.                                                                 *)
(***************************************************************************)
NaN == <<0, 0>>

IsNaN(v) == v[2] = 0

AbsInt(n) == IF n < 0 THEN -n ELSE n

RECURSIVE GCD(_, _)
GCD(a, b) == IF b = 0 THEN a ELSE GCD(b, a % b)

Rat(n, d) ==
    IF d = 0 THEN NaN
    ELSE LET s == IF d < 0 THEN -1 ELSE 1
             g == GCD(AbsInt(n), AbsInt(d))
         IN  <<(s * n) \div g, (s * d) \div g>>

F(n) == <<n, 1>>

Zero == F(0)

One == F(1)

\* An operation whose float result the rationals cannot express.
Unmodelled == CHOOSE v \in {} : TRUE

FAdd(a, b) ==
    IF IsNaN(a) \/ IsNaN(b) THEN NaN
    ELSE Rat(a[1] * b[2] + b[1] * a[2], a[2] * b[2])

FNeg(a) == IF IsNaN(a) THEN NaN ELSE <<-a[1], a[2]>>

FSub(a, b) == FAdd(a, FNeg(b))

FMul(a, b) ==
    IF IsNaN(a) \/ IsNaN(b) THEN NaN ELSE Rat(a[1] * b[1], a[2] * b[2])

\* Comparisons are false as soon as one side is NaN.
FLt(a, b) == ~IsNaN(a) /\ ~IsNaN(b) /\ a[1] * b[2] < b[1] * a[2]

FLe(a, b) == ~IsNaN(a) /\ ~IsNaN(b) /\ a[1] * b[2] <= b[1] * a[2]

FGt(a, b) == FLt(b, a)

FGe(a, b) == FLe(b, a)

FEq(a, b) == ~IsNaN(a) /\ ~IsNaN(b) /\ a = b

\* lhs / rhs for rhs # 0; x / 0 would be an infinity (or NaN for 0 / 0).
FQuot(a, b) ==
    IF IsNaN(a) \/ IsNaN(b) THEN NaN
    ELSE IF b[1] = 0 THEN (IF a[1] = 0 THEN NaN ELSE Unmodelled)
    ELSE Rat(a[1] * b[2], a[2] * b[1])

FFloor(a) == IF IsNaN(a) THEN NaN ELSE F(a[1] \div a[2])

FCeil(a) == IF IsNaN(a) THEN NaN ELSE F(-((-a[1]) \div a[2]))

\* roundf: to nearest, halves away from zero.
FRound(a) ==
    IF IsNaN(a) THEN NaN
    ELSE IF a[1] >= 0 THEN F((2 * a[1] + a[2]) \div (2 * a[2]))
    ELSE F(-((2 * (-a[1]) + a[2]) \div (2 * a[2])))

FAbs(a) == IF IsNaN(a) THEN NaN ELSE <<AbsInt(a[1]), a[2]>>

IsSquare(n) == \E k \in 0..n : k * k = n

ISqrt(n) == CHOOSE k \in 0..n : k * k = n

\* The float nearest the square root of a, when that root is no rational.
\* It is a value of its own kind: no arithmetic is defined on it.
Surd(a) == [sqrt |-> a]

\* sqrtf of a non-negative float (exact on squares).
FSqrt(a) ==
    IF IsNaN(a) THEN NaN
    ELSE IF IsSquare(a[1]) /\ IsSquare(a[2]) THEN <<ISqrt(a[1]), ISqrt(a[2])>>
    ELSE Surd(a)

RECURSIVE IntPow(_, _)
IntPow(b, k) == IF k = 0 THEN 1 ELSE b * IntPow(b, k - 1)

\* powf for an integral exponent (and a non-zero base when it is negative).
FPow(a, b) ==
    IF IsNaN(b) THEN (IF a = One THEN One ELSE NaN)
    ELSE IF b[1] = 0 THEN One
    ELSE IF IsNaN(a) THEN NaN
    ELSE IF b[2] # 1 THEN (IF a = One THEN One ELSE Unmodelled)
    ELSE IF b[1] > 0 THEN Rat(IntPow(a[1], b[1]), IntPow(a[2], b[1]))
    ELSE IF a[1] = 0 THEN Unmodelled
    ELSE Rat(IntPow(a[2], -b[1]), IntPow(a[1], -b[1]))

\* A transcendental function, known at the one argument where it is rational.
AtOnly(x, at, result) ==
    IF IsNaN(x) THEN NaN ELSE IF x = at THEN result ELSE Unmodelled

(***************************************************************************)
(* Characters (ctype.h).                                                   *)
(***************************************************************************)
NUL == "NUL"    \* what peek() returns at the end of the source

Digits == {"0", "1", "2", "3", "4", "5", "6", "7", "8", "9"}

LowerCase ==
    {"a", "b", "c", "d", "e", "f", "g", "h", "i", "j", "k", "l", "m",
     "n", "o", "p", "q", "r", "s", "t", "u", "v", "w", "x", "y", "z"}

UpperCase ==
    {"A", "B", "C", "D", "E", "F", "G", "H", "I", "J", "K", "L", "M",
     "N", "O", "P", "Q", "R", "S", "T", "U", "V", "W", "X", "Y", "Z"}

IsSpace(c) == c \in {" ", "\t", "\n", "\r"}

IsDigit(c) == c \in Digits

IsAlpha(c) == c \in LowerCase \cup UpperCase

IsAlnum(c) == IsAlpha(c) \/ IsDigit(c)

DigitVal(c) ==
    CASE c = "0" -> 0 [] c = "1" -> 1 [] c = "2" -> 2 [] c = "3" -> 3
      [] c = "4" -> 4 [] c = "5" -> 5 [] c = "6" -> 6 [] c = "7" -> 7
      [] c = "8" -> 8 [] c = "9" -> 9

LowerOf ==
    [c \in UpperCase |->
        CASE c = "A" -> "a" [] c = "B" -> "b" [] c = "C" -> "c" [] c = "D" -> "d"
          [] c = "E" -> "e" [] c = "F" -> "f" [] c = "G" -> "g" [] c = "H" -> "h"
          [] c = "I" -> "i" [] c = "J" -> "j" [] c = "K" -> "k" [] c = "L" -> "l"
          [] c = "M" -> "m" [] c = "N" -> "n" [] c = "O" -> "o" [] c = "P" -> "p"
          [] c = "Q" -> "q" [] c = "R" -> "r" [] c = "S" -> "s" [] c = "T" -> "t"
          [] c = "U" -> "u" [] c = "V" -> "v" [] c = "W" -> "w" [] c = "X" -> "x"
          [] c = "Y" -> "y" [] c = "Z" -> "z"]

ToLower(c) == IF c \in UpperCase THEN LowerOf[c] ELSE c

\* The String made of the characters cs.
RECURSIVE Str(_)
Str(cs) == IF cs = <<>> THEN "" ELSE Head(cs) \o Str(Tail(cs))

\* std::transform(..., ::tolower) followed by String(lowered.c_str()).
RECURSIVE LowerStr(_)
LowerStr(cs) == IF cs = <<>> THEN "" ELSE ToLower(Head(cs)) \o LowerStr(Tail(cs))

(***************************************************************************)
(* Expression tree (MathExpression.cpp, struct Node).                      *)
(***************************************************************************)
MkNode(type, constant, op, identifier, children) ==
    [type |-> type, constant |-> constant, op |-> op,
     identifier |-> identifier, children |-> children]

NullNode == MkNode("Null", Zero, "", "", <<>>)

ConstantNode(value) == MkNode("Constant", value, "", "", <<>>)

VariableNode(name) == MkNode("Variable", Zero, "", name, <<>>)

UnaryNode(op, operand) == MkNode("Unary", Zero, op, "", <<operand>>)

\* makeBinary as it would be if '^' grouped to the left: a power whose
\* right operand is a power takes that power's base into its own base.
makeBinaryPowerLeft(op, left, right) ==
    IF op = "^" /\ right.type = "Binary" /\ right.op = "^"
    THEN MkNode("Binary", Zero, "^", "",
                <<MkNode("Binary", Zero, "^", "", <<left, right.children[1]>>),
                  right.children[2]>>)
    ELSE MkNode("Binary", Zero, op, "", <<left, right>>)

makeBinary(op, left, right) == MkNode("Binary", Zero, op, "", <<left, right>>)

FunctionNode(name, args) == MkNode("Function", Zero, "", name, args)

\* The float nearest pi and e; only their being numbers matters here.
PI == Rat(355, 113)

M_E == Rat(193, 71)


(***************************************************************************)
(* Parser (MathExpression.cpp, class Parser).  The parser's members are    *)
(* the record ps: position_ (0-based), error_ and, for the owner's         *)
(* registerVariable, the owner's variables_.  Each parse function hands    *)
(* back the node (NullNode for nullptr) and the members after the call.    *)
(***************************************************************************)
ParserInit == [pos |-> 0, error |-> <<>>, vars |-> <<>>]

Parsed(node, ps) == [node |-> node, ps |-> ps]

peek(src, pos) == IF pos >= Len(src) THEN NUL ELSE src[pos + 1]

advance(src, pos) == IF pos < Len(src) THEN pos + 1 ELSE pos

RECURSIVE skipWhitespace(_, _)
skipWhitespace(src, pos) ==
    IF IsSpace(peek(src, pos)) THEN skipWhitespace(src, advance(src, pos))
    ELSE pos

hasError(ps) == Len(ps.error) > 0

setError(ps, message) ==
    IF Len(ps.error) = 0 THEN [ps EXCEPT !.error = message] ELSE ps

At(ps, pos) == [ps EXCEPT !.pos = pos]

\* MathExpression::registerVariable: deduplicated, in insertion order.
registerVariable(variables, name) ==
    IF \E i \in 1..Len(variables) : variables[i] = name THEN variables
    ELSE Append(variables, name)

RECURSIVE ScanDigits(_, _, _, _)
ScanDigits(src, pos, acc, count) ==
    IF IsDigit(peek(src, pos))
    THEN ScanDigits(src, pos + 1, acc * 10 + DigitVal(peek(src, pos)), count + 1)
    ELSE [val |-> acc, count |-> count, pos |-> pos]

\* strtod on a decimal literal: digits, an optional '.' and digits, and an
\* exponent when 'e' is followed by an optionally signed digit.  end = start
\* when no digit was read.  (A literal starts with a digit or '.', so the
\* sign, "inf" and "nan" forms cannot occur; hexadecimal is not modelled.)
strtod(src, start) ==
    LET ip == ScanDigits(src, start, 0, 0)
        dot == peek(src, ip.pos) = "."
        fp == IF dot THEN ScanDigits(src, ip.pos + 1, 0, 0)
              ELSE [val |-> 0, count |-> 0, pos |-> ip.pos]
        mend == fp.pos
        hex == peek(src, start) = "0" /\ peek(src, start + 1) \in {"x", "X"}
        isE == peek(src, mend) \in {"e", "E"}
        sign == IF isE THEN peek(src, mend + 1) ELSE NUL
        epos == IF sign \in {"+", "-"} THEN mend + 2 ELSE mend + 1
        ex == IF isE THEN ScanDigits(src, epos, 0, 0)
              ELSE [val |-> 0, count |-> 0, pos |-> mend]
        mant == Rat(ip.val * IntPow(10, fp.count) + fp.val, IntPow(10, fp.count))
        scale == IF sign = "-" THEN Rat(1, IntPow(10, ex.val))
                 ELSE F(IntPow(10, ex.val))
    IN  IF hex THEN Unmodelled
        ELSE IF ip.count + fp.count = 0 THEN [value |-> Zero, end |-> start]
        ELSE IF isE /\ ex.count > 0
             THEN [value |-> FMul(mant, scale), end |-> ex.pos]
        ELSE [value |-> mant, end |-> mend]

parseNumber(src, ps) ==
    LET r == strtod(src, ps.pos)
    IN  IF r.end = ps.pos
        THEN Parsed(NullNode,
                    setError(ps, <<"Invalid number at position ", ps.pos + 1>>))
        ELSE Parsed(ConstantNode(r.value), At(ps, r.end))

RECURSIVE ScanIdentifier(_, _)
ScanIdentifier(src, pos) ==
    IF IsAlnum(peek(src, pos)) \/ peek(src, pos) = "_"
    THEN ScanIdentifier(src, advance(src, pos))
    ELSE pos

\* The mutually recursive parse functions are the rules of one recursive
\* definition, Rule; node is the node built so far, for the rules that are
\* the body of a loop.
RECURSIVE Rule(_, _, _, _)

parseExpression(src, ps) == Rule("parseExpression", src, NullNode, ps)

\* The while (true) of parseExpression.
ExpressionLoop(src, node, ps) == Rule("ExpressionLoop", src, node, ps)

parseTerm(src, ps) == Rule("parseTerm", src, NullNode, ps)

\* The while (true) of parseTerm.
TermLoop(src, node, ps) == Rule("TermLoop", src, node, ps)

parsePower(src, ps) == Rule("parsePower", src, NullNode, ps)

parseUnary(src, ps) == Rule("parseUnary", src, NullNode, ps)

parsePrimary(src, ps) == Rule("parsePrimary", src, NullNode, ps)

parseIdentifier(src, ps) == Rule("parseIdentifier", src, NullNode, ps)

\* The while (true) of parseIdentifier's argument list.
ArgumentLoop(src, node, ps) == Rule("ArgumentLoop", src, node, ps)

Rule(rule, src, node, ps) ==
    CASE rule = "parseExpression" ->
            LET t == parseTerm(src, ps)
            IN  IF t.node = NullNode THEN t ELSE ExpressionLoop(src, t.node, t.ps)
      [] rule = "ExpressionLoop" ->
            LET p == skipWhitespace(src, ps.pos)
                c == peek(src, p)
                rhs == parseTerm(src, At(ps, advance(src, p)))
            IN  IF c = "+" \/ c = "-"
                THEN IF rhs.node = NullNode THEN rhs
                     ELSE ExpressionLoop(src, makeBinary(c, node, rhs.node), rhs.ps)
                ELSE Parsed(node, At(ps, p))
      [] rule = "parseTerm" ->
            LET t == parsePower(src, ps)
            IN  IF t.node = NullNode THEN t ELSE TermLoop(src, t.node, t.ps)
      [] rule = "TermLoop" ->
            LET p == skipWhitespace(src, ps.pos)
                c == peek(src, p)
                rhs == parsePower(src, At(ps, advance(src, p)))
            IN  IF c = "*" \/ c = "/"
                THEN IF rhs.node = NullNode THEN rhs
                     ELSE TermLoop(src, makeBinary(c, node, rhs.node), rhs.ps)
                ELSE Parsed(node, At(ps, p))
      [] rule = "parsePower" ->
            LET u == parseUnary(src, ps)
                p == skipWhitespace(src, u.ps.pos)
                rhs == parsePower(src, At(u.ps, advance(src, p)))
            IN  IF u.node = NullNode THEN u
                ELSE IF peek(src, p) = "^"
                THEN IF rhs.node = NullNode THEN rhs
                     ELSE Parsed(makeBinary("^", u.node, rhs.node), rhs.ps)
                ELSE Parsed(u.node, At(u.ps, p))
      [] rule = "parseUnary" ->
            LET p == skipWhitespace(src, ps.pos)
                operand == parseUnary(src, At(ps, advance(src, p)))
            IN  IF peek(src, p) = "+" THEN operand
                ELSE IF peek(src, p) = "-"
                THEN IF operand.node = NullNode THEN operand
                     ELSE Parsed(UnaryNode("-", operand.node), operand.ps)
                ELSE parsePrimary(src, At(ps, p))
      [] rule = "parsePrimary" ->
            LET p == skipWhitespace(src, ps.pos)
                c == peek(src, p)
                e == parseExpression(src, At(ps, advance(src, p)))
                q == skipWhitespace(src, e.ps.pos)
            IN  IF c = "("
                THEN IF e.node = NullNode THEN e
                     ELSE IF peek(src, q) # ")"
                     THEN Parsed(NullNode,
                            setError(At(e.ps, q),
                              <<"Missing closing parenthesis at position ", q + 1>>))
                     ELSE Parsed(e.node, At(e.ps, advance(src, q)))
                ELSE IF c = NUL
                THEN Parsed(NullNode,
                            setError(At(ps, p), <<"Unexpected end of expression">>))
                ELSE IF IsDigit(c) \/ c = "." THEN parseNumber(src, At(ps, p))
                ELSE IF IsAlpha(c) \/ c = "_" THEN parseIdentifier(src, At(ps, p))
                ELSE Parsed(NullNode,
                            setError(At(ps, p), <<"Unexpected character '", c, "'">>))
      [] rule = "parseIdentifier" ->
            LET start == ps.pos
                stop == ScanIdentifier(src, start)
                chars == SubSeq(src, start + 1, stop)
                ident == Str(chars)
                lowered == LowerStr(chars)
                p == skipWhitespace(src, stop)
                call == FunctionNode(lowered, <<>>)
            IN  IF peek(src, p) = "("
                THEN IF peek(src, advance(src, p)) = ")"
                     THEN Parsed(call, At(ps, advance(src, advance(src, p))))
                     ELSE ArgumentLoop(src, call, At(ps, advance(src, p)))
                ELSE IF lowered = "pi" THEN Parsed(ConstantNode(PI), At(ps, p))
                ELSE IF lowered = "e" THEN Parsed(ConstantNode(M_E), At(ps, p))
                ELSE Parsed(VariableNode(ident),
                            [At(ps, p) EXCEPT
                                !.vars = registerVariable(ps.vars, ident)])
      [] rule = "ArgumentLoop" ->
            LET arg == parseExpression(src, ps)
                withArg == [node EXCEPT !.children = Append(@, arg.node)]
                p == skipWhitespace(src, arg.ps.pos)
            IN  IF arg.node = NullNode THEN arg
                ELSE IF peek(src, p) = ")"
                THEN Parsed(withArg, At(arg.ps, advance(src, p)))
                ELSE IF peek(src, p) # ","
                THEN Parsed(NullNode,
                       setError(At(arg.ps, p),
                         <<"Expected ',' or ')' in argument list at position ",
                           p + 1>>))
                ELSE ArgumentLoop(src, withArg, At(arg.ps, advance(src, p)))

\* Parser::parse.
parse(src) ==
    LET Finish(e) ==
            LET p == skipWhitespace(src, e.ps.pos)
                ps == At(e.ps, p)
            IN  IF e.node = NullNode \/ hasError(ps) THEN Parsed(NullNode, ps)
                ELSE IF p # Len(src)
                THEN Parsed(NullNode,
                       setError(ps, <<"Unexpected token at position ", p + 1>>))
                ELSE Parsed(e.node, ps)
    IN  Finish(parseExpression(src, At(ParserInit, skipWhitespace(src, 0))))

\* MathExpression::compile: root_ (NullNode when it failed), variables_ and
\* the errorMessage handed back.
compile(expression) ==
    LET Result(r) ==
            [root |-> r.node, variables |-> r.ps.vars, error |-> r.ps.error,
             ok |-> r.node # NullNode]
    IN  Result(parse(expression))

(***************************************************************************)
(* Evaluator (MathExpression.cpp).                                         *)
(***************************************************************************)
\* applyBinary as it would be if a division by zero gave 0.
applyBinaryZeroQuotient(op, lhs, rhs) ==
    CASE op = "+" -> FAdd(lhs, rhs)
      [] op = "-" -> FSub(lhs, rhs)
      [] op = "*" -> FMul(lhs, rhs)
      [] op = "/" -> IF FEq(rhs, Zero) THEN Zero ELSE FQuot(lhs, rhs)
      [] op = "^" -> FPow(lhs, rhs)
      [] OTHER -> NaN

applyBinary(op, lhs, rhs) ==
    CASE op = "+" -> FAdd(lhs, rhs)
      [] op = "-" -> FSub(lhs, rhs)
      [] op = "*" -> FMul(lhs, rhs)
      [] op = "/" -> IF FEq(rhs, Zero) THEN NaN ELSE FQuot(lhs, rhs)
      [] op = "^" -> FPow(lhs, rhs)
      [] OTHER -> NaN

applyUnary(op, value) == IF op = "-" THEN FNeg(value) ELSE value

RECURSIVE FoldMin(_, _, _)
FoldMin(args, i, value) ==
    IF i > Len(args) THEN value
    ELSE FoldMin(args, i + 1, IF FLt(args[i], value) THEN args[i] ELSE value)

RECURSIVE FoldMax(_, _, _)
FoldMax(args, i, value) ==
    IF i > Len(args) THEN value
    ELSE FoldMax(args, i + 1, IF FGt(args[i], value) THEN args[i] ELSE value)

RECURSIVE FoldSum(_, _, _)
FoldSum(args, i, sum) ==
    IF i > Len(args) THEN sum ELSE FoldSum(args, i + 1, FAdd(sum, args[i]))

Clamp(value, lo0, hi0) ==
    LET lo == IF FGt(lo0, hi0) THEN hi0 ELSE lo0
        hi == IF FGt(lo0, hi0) THEN lo0 ELSE hi0
        v1 == IF FLt(value, lo) THEN lo ELSE value
    IN  IF FGt(v1, hi) THEN hi ELSE v1

FnFail == [ok |-> FALSE, out |-> NaN]

FnOk(value) == [ok |-> TRUE, out |-> value]

Arity1 ==
    {"sin", "cos", "tan", "asin", "acos", "atan", "sqrt", "abs", "exp",
     "ln", "log", "log10", "floor", "ceil", "round"}

\* The one-argument built-ins.
Apply1(name, x) ==
    CASE name = "sin" -> AtOnly(x, Zero, Zero)
      [] name = "cos" -> AtOnly(x, Zero, One)
      [] name = "tan" -> AtOnly(x, Zero, Zero)
      [] name = "asin" -> AtOnly(x, Zero, Zero)
      [] name = "acos" -> AtOnly(x, One, Zero)
      [] name = "atan" -> AtOnly(x, Zero, Zero)
      [] name = "sqrt" -> IF FLt(x, Zero) THEN NaN ELSE FSqrt(x)
      [] name = "abs" -> FAbs(x)
      [] name = "exp" -> AtOnly(x, Zero, One)
      [] name \in {"ln", "log"} -> IF FLe(x, Zero) THEN NaN ELSE AtOnly(x, One, Zero)
      [] name = "log10" ->
            IF FLe(x, Zero) THEN NaN
            ELSE IF x = F(10) THEN One ELSE AtOnly(x, One, Zero)
      [] name = "floor" -> FFloor(x)
      [] name = "ceil" -> FCeil(x)
      [] name = "round" -> FRound(x)

\* The name reaches evaluateFunction already lowered by parseIdentifier, so
\* its own toLowerCase changes nothing.
evaluateFunction(name, args) ==
    IF name \in Arity1
    THEN IF Len(args) # 1 THEN FnFail ELSE FnOk(Apply1(name, args[1]))
    ELSE IF name = "min"
    THEN IF Len(args) = 0 THEN FnFail ELSE FnOk(FoldMin(args, 2, args[1]))
    ELSE IF name = "max"
    THEN IF Len(args) = 0 THEN FnFail ELSE FnOk(FoldMax(args, 2, args[1]))
    ELSE IF name = "avg" \/ name = "mean"
    THEN IF Len(args) = 0 THEN FnFail
         ELSE FnOk(FQuot(FoldSum(args, 1, Zero), F(Len(args))))
    ELSE IF name = "sum" THEN FnOk(FoldSum(args, 1, Zero))
    ELSE IF name = "clamp"
    THEN IF Len(args) # 3 THEN FnFail ELSE FnOk(Clamp(args[1], args[2], args[3]))
    ELSE IF name = "pow"
    THEN IF Len(args) # 2 THEN FnFail ELSE FnOk(FPow(args[1], args[2]))
    ELSE FnFail

(***************************************************************************)
(* Signals (VirtualSignal.cpp) and sampling.  A call that returns hands    *)
(* back st = "ok" (true) or "fail" (false) and the value left in out;      *)
(* st = "overflow" is a call that never returns.                           *)
(***************************************************************************)
\* The least index of the set S (where a loop over the vector stops), 0 when
\* S is empty.
First(S) == IF S = {} THEN 0 ELSE CHOOSE i \in S : \A j \in S : i <= j

\* nullptr; the live objects have the addresses 1, 2, ...
NullPtr == 0

Returned(st, out) == [st |-> st, out |-> out]

Overflow == [st |-> "overflow", out |-> NaN]

\* static wrapPhase: the two while loops.
RECURSIVE WrapUp(_)
WrapUp(phase) == IF FLt(phase, Zero) THEN WrapUp(FAdd(phase, One)) ELSE phase

RECURSIVE WrapDown(_)
WrapDown(phase) == IF FGe(phase, One) THEN WrapDown(FSub(phase, One)) ELSE phase

wrapPhase(phase) == WrapDown(WrapUp(phase))

\* sinf(2 * PI * phase), at the quarter turns where it is a rational.
SinTurn(phase) ==
    CASE phase = Zero -> Zero
      [] phase = Rat(1, 4) -> One
      [] phase = Rat(3, 4) -> F(-1)
      [] IsNaN(phase) -> NaN

SquareDuty(dutyCycle) ==
    LET d1 == IF FLe(dutyCycle, Zero) THEN Rat(1, 100) ELSE dutyCycle
    IN  IF FGe(d1, One) THEN Rat(99, 100) ELSE d1

\* WaveformSignal::sample for the deterministic shapes (Noise draws from the
\* global random() and is not among the shapes configured here).
WaveformSample(settings, t) ==
    IF settings.shape = "DC" \/ FEq(settings.frequency, Zero)
    THEN FAdd(settings.offset, settings.amplitude)
    ELSE LET cycles == FAdd(FMul(settings.frequency, t), settings.phase)
             phase == wrapPhase(cycles)
             value ==
                CASE settings.shape = "Sine" ->
                        FMul(SinTurn(phase), settings.amplitude)
                  [] settings.shape = "Square" ->
                        IF FLt(phase, SquareDuty(settings.dutyCycle))
                        THEN settings.amplitude ELSE FNeg(settings.amplitude)
                  [] settings.shape = "Triangle" ->
                        IF FLt(phase, Rat(1, 4))
                        THEN FMul(FMul(F(4), phase), settings.amplitude)
                        ELSE IF FLt(phase, Rat(3, 4))
                        THEN FMul(FSub(F(2), FMul(F(4), phase)), settings.amplitude)
                        ELSE FMul(FAdd(F(-4), FMul(F(4), phase)), settings.amplitude)
                  [] settings.shape = "Sawtooth" ->
                        FMul(FSub(FMul(F(2), phase), One), settings.amplitude)
         IN  FAdd(value, settings.offset)

\* VirtualWorkspace::findSignalInternal: the first entry with this id.
findSignalInternal(id) ==
    LET i == First({k \in 1..Len(signals) : heap[signals[k]].id = id})
    IN  IF i # 0 THEN signals[i] ELSE NullPtr

RECURSIVE sampleSignal(_, _, _, _)
RECURSIVE evaluateNode(_, _, _, _)
RECURSIVE EvaluateArgs(_, _, _, _, _, _)

\* The resolver as it would be if it looked at the bindings only.
ResolverBindingsOnly(bindings, variable, time, depth) ==
    LET i == First({k \in 1..Len(bindings) : bindings[k].variable = variable})
    IN  IF i # 0 THEN sampleSignal(bindings[i].signalId, time, NaN, depth)
        ELSE Returned("fail", NaN)

\* The resolver as it would be if a binding whose signal cannot be
\* sampled gave way to the variable itself as the signal id.
ResolverFallsBack(bindings, variable, time, depth) ==
    LET i == First({k \in 1..Len(bindings) : bindings[k].variable = variable})
        Bound(r) ==
            IF r.st = "fail" THEN sampleSignal(variable, time, NaN, depth) ELSE r
    IN  IF i # 0 THEN Bound(sampleSignal(bindings[i].signalId, time, NaN, depth))
        ELSE sampleSignal(variable, time, NaN, depth)

\* The resolver lambda of MathVirtualSignal::sample: the first binding of
\* the variable, else the variable itself as the signal id.
Resolver(bindings, variable, time, depth) ==
    LET i == First({k \in 1..Len(bindings) : bindings[k].variable = variable})
    IN  IF i # 0 THEN sampleSignal(bindings[i].signalId, time, NaN, depth)
        ELSE sampleSignal(variable, time, NaN, depth)

\* MathExpression::evaluateNode.  depth counts the sampleSignal calls that
\* are on the stack.
evaluateNode(node, bindings, time, depth) ==
    CASE node.type = "Constant" -> Returned("ok", node.constant)
      [] node.type = "Variable" ->
            Resolver(bindings, node.identifier, time, depth)
      [] node.type = "Unary" ->
            LET Apply(operand) ==
                    IF operand.st # "ok" THEN operand
                    ELSE Returned("ok", applyUnary(node.op, operand.out))
            IN  Apply(evaluateNode(node.children[1], bindings, time, depth))
      [] node.type = "Binary" ->
            LET Apply(lhs, rhs) ==
                    IF lhs.st # "ok" THEN lhs
                    ELSE IF rhs.st # "ok" THEN rhs
                    ELSE Returned("ok", applyBinary(node.op, lhs.out, rhs.out))
            IN  Apply(evaluateNode(node.children[1], bindings, time, depth),
                      evaluateNode(node.children[2], bindings, time, depth))
      [] node.type = "Function" ->
            EvaluateArgs(node, 1, <<>>, bindings, time, depth)
      [] OTHER -> Returned("fail", NaN)

\* The argument loop of a Function node, then evaluateFunction.
EvaluateArgs(node, i, args, bindings, time, depth) ==
    IF i > Len(node.children)
    THEN LET r == evaluateFunction(node.identifier, args)
         IN  IF r.ok THEN Returned("ok", r.out) ELSE Returned("fail", NaN)
    ELSE LET Push(value) ==
                 IF value.st # "ok" THEN value
                 ELSE EvaluateArgs(node, i + 1, Append(args, value.out),
                                   bindings, time, depth)
         IN  Push(evaluateNode(node.children[i], bindings, time, depth))

CompiledNull == [root |-> NullNode, variables |-> <<>>]

\* MathExpression::MathExpression: nothing compiled yet.
MathExpressionInit == [expression |-> <<>>, root |-> NullNode, variables |-> <<>>]

\* MathExpression::evaluate.
evaluate(compiled, bindings, time, depth) ==
    IF compiled.root = NullNode THEN Returned("fail", NaN)
    ELSE evaluateNode(compiled.root, bindings, time, depth)

\* MathVirtualSignal::sample: NaN when the expression is not compiled or its
\* evaluation fails.
MathSample(obj, time, depth) ==
    IF obj.compiled = CompiledNull THEN Returned("ok", NaN)
    ELSE LET Result(r) ==
                 IF r.st = "overflow" THEN Overflow
                 ELSE IF r.st = "fail" THEN Returned("ok", NaN)
                 ELSE Returned("ok", r.out)
         IN  Result(evaluate(obj.compiled, obj.bindings, time, depth))

\* signal->sample(ctx): the virtual call.
SignalSample(obj, time, depth) ==
    CASE obj.kind = "Constant" -> Returned("ok", obj.value)
      [] obj.kind = "Waveform" -> Returned("ok", WaveformSample(obj.settings, time))
      [] obj.kind = "Math" -> MathSample(obj, time, depth)

\* Sampling is deterministic and a nested call samples at the same time, so
\* a chain of more nested sampleSignal calls than there are signals repeats
\* an id and never ends: the stack is exhausted.
StackExhausted(depth) == depth >= Len(signals)

\* sampleSignal as it would be if it returned true for every registered id.
sampleSignalIgnoresNaN(id, time, out0, depth) ==
    LET signal == findSignalInternal(id)
    IN  IF signal = NullPtr THEN Returned("fail", out0)
        ELSE IF StackExhausted(depth) THEN Overflow
        ELSE LET Result(r) ==
                     IF r.st = "overflow" THEN Overflow ELSE Returned("ok", r.out)
             IN  Result(SignalSample(heap[signal], time, depth + 1))

\* VirtualWorkspace::sampleSignal(id, time, out): out0 is what the caller's
\* variable held.
sampleSignal(id, time, out0, depth) ==
    LET signal == findSignalInternal(id)
    IN  IF signal = NullPtr THEN Returned("fail", out0)
        ELSE IF StackExhausted(depth) THEN Overflow
        ELSE LET Result(r) ==
                     IF r.st = "overflow" THEN Overflow
                     ELSE Returned(IF IsNaN(r.out) THEN "fail" ELSE "ok", r.out)
             IN  Result(SignalSample(heap[signal], time, depth + 1))

(***************************************************************************)
(* Signal objects and the heap.                                            *)
(***************************************************************************)
\* WaveformSettings' member initialisers.
DefaultSettings ==
    [amplitude |-> One, offset |-> Zero, frequency |-> One, phase |-> Zero,
     dutyCycle |-> Rat(1, 2), shape |-> "Sine"]

ConstantSignal(id, name, value) ==
    [kind |-> "Constant", id |-> id, name |-> name, units |-> "", helpKey |-> "",
     value |-> value]

WaveformSignal(id, name) ==
    [kind |-> "Waveform", id |-> id, name |-> name, units |-> "", helpKey |-> "",
     settings |-> DefaultSettings]

MathVirtualSignal(id, name) ==
    [kind |-> "Math", id |-> id, name |-> name, units |-> "", helpKey |-> "",
     expression |-> <<>>, bindings |-> <<>>, compiled |-> CompiledNull]

\* std::make_shared: an address no live object has.
New(h) ==
    CHOOSE a \in 1..(Cardinality(DOMAIN h) + 1) :
        /\ a \notin DOMAIN h
        /\ \A b \in 1..(a - 1) : b \in DOMAIN h

Alloc(h, a, obj) == [x \in DOMAIN h \cup {a} |-> IF x = a THEN obj ELSE h[x]]

\* shared_ptr reference counting: an object no signals_ entry and no Output
\* refers to is destroyed.  An address carries no meaning, so the objects
\* that survive are kept at 1, 2, ... in the order in which signals_ and then
\* outputs_ refer to them.
Collect(h, sigs, outs) ==
    LET held == [k \in 1..Len(outs) |-> outs[k].signal]
        Unregistered(a) == \A k \in 1..Len(sigs) : sigs[k] # a
        live == sigs \o SelectSeq(held, Unregistered)
        Moved(a) == CHOOSE i \in 1..Len(live) : live[i] = a
    IN  [heap |-> [i \in 1..Len(live) |-> h[live[i]]],
         signals |-> [k \in 1..Len(sigs) |-> Moved(sigs[k])],
         outputs |-> [k \in 1..Len(outs) |->
                        [outs[k] EXCEPT !.signal = Moved(@)]]]

\* vector::erase(begin() + i), for the 1-based index i.
Erase(seq, i) == SubSeq(seq, 1, i - 1) \o SubSeq(seq, i + 1, Len(seq))

(***************************************************************************)
(* VirtualWorkspace (VirtualWorkspace.cpp).  h is the heap at the time of  *)
(* the call, sigs is signals_.                                             *)
(***************************************************************************)
\* The loop of sampleSignalSeries, from sample i on; out is the caller's
\* vector as filled so far.
RECURSIVE SeriesLoop(_, _, _, _, _, _)
SeriesLoop(id, startTime, interval, count, i, out) ==
    IF i >= count THEN [st |-> "ok", out |-> out]
    ELSE LET Push(r) ==
                 IF r.st # "ok" THEN [st |-> r.st, out |-> out]
                 ELSE SeriesLoop(id, startTime, interval, count, i + 1,
                                 Append(out, r.out))
         IN  Push(sampleSignal(id, FAdd(startTime, FMul(interval, F(i))),
                               NaN, 0))

\* VirtualWorkspace::sampleSignalSeries: out.clear(), then the loop.
sampleSignalSeries(id, startTime, interval, count, out) ==
    SeriesLoop(id, startTime, interval, count, 0, <<>>)

\* registerSignal as it would be with the push_back alone.
registerSignalPushBack(h, sigs, signal) ==
    IF signal = NullPtr THEN [ret |-> FALSE, signals |-> sigs]
    ELSE [ret |-> TRUE, signals |-> Append(sigs, signal)]

\* registerSignal as it would be if it erased the existing entry and pushed
\* the new signal back.
registerSignalMoves(h, sigs, signal) ==
    IF signal = NullPtr THEN [ret |-> FALSE, signals |-> sigs]
    ELSE LET i == First({k \in 1..Len(sigs) : h[sigs[k]].id = h[signal].id})
         IN  IF i # 0 THEN [ret |-> TRUE, signals |-> Append(Erase(sigs, i), signal)]
             ELSE [ret |-> TRUE, signals |-> Append(sigs, signal)]

registerSignal(h, sigs, signal) ==
    IF signal = NullPtr THEN [ret |-> FALSE, signals |-> sigs]
    ELSE LET i == First({k \in 1..Len(sigs) : h[sigs[k]].id = h[signal].id})
         IN  IF i # 0 THEN [ret |-> TRUE, signals |-> [sigs EXCEPT ![i] = signal]]
             ELSE [ret |-> TRUE, signals |-> Append(sigs, signal)]

removeSignal(h, sigs, id) ==
    LET i == First({k \in 1..Len(sigs) : h[sigs[k]].id = id})
    IN  IF i # 0 THEN [ret |-> TRUE, signals |-> Erase(sigs, i)]
        ELSE [ret |-> FALSE, signals |-> sigs]

(***************************************************************************)
(* FunctionGenerator (FunctionGenerator.cpp).                              *)
(***************************************************************************)
findOutput(id) ==
    First({k \in 1..Len(outputs) : outputs[k].id = id})

\* configureOutput as it would be if it tested the name before the id.
configureOutputNameFirst(config) ==
    LET unchanged == [heap |-> heap, signals |-> signals, outputs |-> outputs]
        i == findOutput(config.id)
    IN  IF Len(config.name) = 0
        THEN [ret |-> FALSE, error |-> <<"missing_name">>] @@ unchanged
        ELSE IF Len(config.id) = 0
        THEN [ret |-> FALSE, error |-> <<"missing_id">>] @@ unchanged
        ELSE IF i # 0
        THEN LET existing ==
                    [outputs[i] EXCEPT !.name = config.name,
                                       !.settings = config.settings,
                                       !.enabled = config.enabled,
                                       !.units = config.units]
             IN  [ret |-> TRUE, error |-> <<>>,
                  heap |-> IF existing.signal # NullPtr
                           THEN [heap EXCEPT ![existing.signal] =
                                    [@ EXCEPT !.name = config.name,
                                              !.settings = config.settings,
                                              !.units = config.units]]
                           ELSE heap,
                  signals |-> signals,
                  outputs |-> [outputs EXCEPT ![i] = existing]]
        ELSE LET signal == New(heap)
                 obj == [WaveformSignal(config.id, config.name) EXCEPT
                            !.settings = config.settings,
                            !.units = IF Len(config.units) > 0 THEN config.units
                                      ELSE "V",
                            !.helpKey = "function_generator.output"]
                 h == Alloc(heap, signal, obj)
                 reg == registerSignal(h, signals, signal)
                 output == [id |-> config.id, name |-> config.name,
                            enabled |-> config.enabled,
                            settings |-> config.settings,
                            units |-> obj.units, signal |-> signal]
             IN  IF ~reg.ret
                 THEN [ret |-> FALSE, error |-> <<"duplicate_signal">>] @@ unchanged
                 ELSE [ret |-> TRUE, error |-> <<>>, heap |-> h,
                       signals |-> reg.signals,
                       outputs |-> Append(outputs, output)]

configureOutput(config) ==
    LET unchanged == [heap |-> heap, signals |-> signals, outputs |-> outputs]
        i == findOutput(config.id)
    IN  IF Len(config.id) = 0
        THEN [ret |-> FALSE, error |-> <<"missing_id">>] @@ unchanged
        ELSE IF Len(config.name) = 0
        THEN [ret |-> FALSE, error |-> <<"missing_name">>] @@ unchanged
        ELSE IF i # 0
        THEN LET existing ==
                    [outputs[i] EXCEPT !.name = config.name,
                                       !.settings = config.settings,
                                       !.enabled = config.enabled,
                                       !.units = config.units]
             IN  [ret |-> TRUE, error |-> <<>>,
                  heap |-> IF existing.signal # NullPtr
                           THEN [heap EXCEPT ![existing.signal] =
                                    [@ EXCEPT !.name = config.name,
                                              !.settings = config.settings,
                                              !.units = config.units]]
                           ELSE heap,
                  signals |-> signals,
                  outputs |-> [outputs EXCEPT ![i] = existing]]
        ELSE LET signal == New(heap)
                 obj == [WaveformSignal(config.id, config.name) EXCEPT
                            !.settings = config.settings,
                            !.units = IF Len(config.units) > 0 THEN config.units
                                      ELSE "V",
                            !.helpKey = "function_generator.output"]
                 h == Alloc(heap, signal, obj)
                 reg == registerSignal(h, signals, signal)
                 output == [id |-> config.id, name |-> config.name,
                            enabled |-> config.enabled,
                            settings |-> config.settings,
                            units |-> obj.units, signal |-> signal]
             IN  IF ~reg.ret
                 THEN [ret |-> FALSE, error |-> <<"duplicate_signal">>] @@ unchanged
                 ELSE [ret |-> TRUE, error |-> <<>>, heap |-> h,
                       signals |-> reg.signals,
                       outputs |-> Append(outputs, output)]

\* removeOutput as it would be without the workspace_.removeSignal call.
removeOutputFacadeOnly(id) ==
    LET i == findOutput(id)
    IN  IF i # 0
        THEN [ret |-> TRUE, signals |-> signals, outputs |-> Erase(outputs, i)]
        ELSE [ret |-> FALSE, signals |-> signals, outputs |-> outputs]

removeOutput(id) ==
    LET i == findOutput(id)
    IN  IF i # 0
        THEN [ret |-> TRUE,
              signals |-> removeSignal(heap, signals, outputs[i].id).signals,
              outputs |-> Erase(outputs, i)]
        ELSE [ret |-> FALSE, signals |-> signals, outputs |-> outputs]

(***************************************************************************)
(* MathZone (MathZone.cpp) and MathVirtualSignal::configure.               *)
(***************************************************************************)
\* MathVirtualSignal::configure on the object obj.
MathConfigure(obj, expression, bindings) ==
    LET Result(c) ==
            [ret |-> c.ok, error |-> c.error,
             obj |-> [obj EXCEPT !.expression = expression,
                                 !.bindings = bindings,
                                 !.compiled = IF c.ok
                                              THEN [root |-> c.root,
                                                    variables |-> c.variables]
                                              ELSE CompiledNull]]
    IN  Result(compile(expression))

\* defineExpression as it would be if it registered the signal before
\* looking at what configure returned.
defineExpressionRegistersFirst(config) ==
    LET unchanged == [heap |-> heap, signals |-> signals,
                      expressionIds |-> expressionIds]
        signal == New(heap)
        found == \E k \in 1..Len(expressionIds) : expressionIds[k] = config.id
        \* From signal->configure on: conf is what configure returned.
        Register(conf) ==
            LET obj == [conf.obj EXCEPT
                           !.units = IF Len(config.units) > 0 THEN config.units
                                     ELSE "V",
                           !.helpKey = "math_zone.expression"]
                h == Alloc(heap, signal, obj)
                reg == registerSignal(h, signals, signal)
            IN  IF ~conf.ret
                THEN [ret |-> FALSE, error |-> <<"compile_error:">> \o conf.error,
                      heap |-> h, signals |-> reg.signals,
                      expressionIds |-> expressionIds]
                ELSE IF ~reg.ret
                THEN [ret |-> FALSE, error |-> <<"duplicate_signal">>] @@ unchanged
                ELSE [ret |-> TRUE, error |-> <<>>, heap |-> h,
                      signals |-> reg.signals,
                      expressionIds |-> IF found THEN expressionIds
                                        ELSE Append(expressionIds, config.id)]
    IN  IF Len(config.id) = 0
        THEN [ret |-> FALSE, error |-> <<"missing_id">>] @@ unchanged
        ELSE IF Len(config.name) = 0
        THEN [ret |-> FALSE, error |-> <<"missing_name">>] @@ unchanged
        ELSE IF Len(config.expression) = 0
        THEN [ret |-> FALSE, error |-> <<"missing_expression">>] @@ unchanged
        ELSE Register(MathConfigure(MathVirtualSignal(config.id, config.name),
                                    config.expression, config.bindings))

defineExpression(config) ==
    LET unchanged == [heap |-> heap, signals |-> signals,
                      expressionIds |-> expressionIds]
        signal == New(heap)
        found == \E k \in 1..Len(expressionIds) : expressionIds[k] = config.id
        \* From signal->configure on: conf is what configure returned.
        Register(conf) ==
            LET obj == [conf.obj EXCEPT
                           !.units = IF Len(config.units) > 0 THEN config.units
                                     ELSE "V",
                           !.helpKey = "math_zone.expression"]
                h == Alloc(heap, signal, obj)
                reg == registerSignal(h, signals, signal)
            IN  IF ~conf.ret
                THEN [ret |-> FALSE, error |-> <<"compile_error:">> \o conf.error]
                        @@ unchanged
                ELSE IF ~reg.ret
                THEN [ret |-> FALSE, error |-> <<"duplicate_signal">>] @@ unchanged
                ELSE [ret |-> TRUE, error |-> <<>>, heap |-> h,
                      signals |-> reg.signals,
                      expressionIds |-> IF found THEN expressionIds
                                        ELSE Append(expressionIds, config.id)]
    IN  IF Len(config.id) = 0
        THEN [ret |-> FALSE, error |-> <<"missing_id">>] @@ unchanged
        ELSE IF Len(config.name) = 0
        THEN [ret |-> FALSE, error |-> <<"missing_name">>] @@ unchanged
        ELSE IF Len(config.expression) = 0
        THEN [ret |-> FALSE, error |-> <<"missing_expression">>] @@ unchanged
        ELSE Register(MathConfigure(MathVirtualSignal(config.id, config.name),
                                    config.expression, config.bindings))

removeExpression(id) ==
    LET i == First({k \in 1..Len(expressionIds) : expressionIds[k] = id})
    IN  IF i # 0
        THEN [ret |-> TRUE, expressionIds |-> Erase(expressionIds, i),
              signals |-> removeSignal(heap, signals, id).signals]
        ELSE [ret |-> FALSE, expressionIds |-> expressionIds, signals |-> signals]

(***************************************************************************)
(* Oscilloscope (Oscilloscope.cpp).                                        *)
(***************************************************************************)
\* configureTrace as it would be with the push_back alone.
configureTraceAppends(config) ==
    IF Len(config.id) = 0 \/ Len(config.signalId) = 0
    THEN [ret |-> FALSE, traces |-> traces]
    ELSE [ret |-> TRUE, traces |-> Append(traces, config)]

configureTrace(config) ==
    LET i == First({k \in 1..Len(traces) : traces[k].id = config.id})
    IN  IF Len(config.id) = 0 \/ Len(config.signalId) = 0
        THEN [ret |-> FALSE, traces |-> traces]
        ELSE IF i # 0 THEN [ret |-> TRUE, traces |-> [traces EXCEPT ![i] = config]]
        ELSE [ret |-> TRUE, traces |-> Append(traces, config)]

\* removeTrace as it would be if it returned true for an id it does not
\* hold.
removeTraceAlways(id) ==
    LET i == First({k \in 1..Len(traces) : traces[k].id = id})
    IN  IF i # 0 THEN [ret |-> TRUE, traces |-> Erase(traces, i)]
        ELSE [ret |-> TRUE, traces |-> traces]

removeTrace(id) ==
    LET i == First({k \in 1..Len(traces) : traces[k].id = id})
    IN  IF i # 0 THEN [ret |-> TRUE, traces |-> Erase(traces, i)]
        ELSE [ret |-> FALSE, traces |-> traces]

\* The inner loop of capture as it would be if every sample were taken at
\* startTime.
RECURSIVE CaptureSamplesAtStart(_, _, _, _, _)
CaptureSamplesAtStart(signalId, request, interval, i, samples) ==
    IF i >= request.sampleCount THEN [st |-> "ok", samples |-> samples]
    ELSE LET Push(r) ==
                 IF r.st # "ok" THEN [st |-> r.st, samples |-> samples]
                 ELSE CaptureSamplesAtStart(signalId, request, interval, i + 1,
                                            Append(samples, r.out))
         IN  Push(sampleSignal(signalId, request.startTime, NaN, 0))

\* The inner loop of capture over i, from sample i on: st = "ok" with the
\* samples, or how the first sampleSignal that did not succeed ended.
RECURSIVE CaptureSamples(_, _, _, _, _)
CaptureSamples(signalId, request, interval, i, samples) ==
    IF i >= request.sampleCount THEN [st |-> "ok", samples |-> samples]
    ELSE LET time == FAdd(request.startTime, FMul(interval, F(i)))
             Push(r) ==
                 IF r.st # "ok" THEN [st |-> r.st, samples |-> samples]
                 ELSE CaptureSamples(signalId, request, interval, i + 1,
                                     Append(samples, r.out))
         IN  Push(sampleSignal(signalId, time, NaN, 0))

RECURSIVE CaptureTraces(_, _, _, _)

\* The loop over traces_ as it would be without the test of trace.enabled.
CaptureTracesEvery(request, interval, k, result) ==
    IF k > Len(traces) THEN [st |-> "ok", error |-> <<>>, result |-> result]
    ELSE LET trace == traces[k]
             Push(s) ==
                 LET data == [id |-> trace.id, label |-> trace.label,
                              enabled |-> trace.enabled, samples |-> s.samples]
                 IN  IF s.st = "overflow"
                     THEN [st |-> "overflow", error |-> <<>>, result |-> result]
                     ELSE IF s.st = "fail"
                     THEN [st |-> "fail",
                           error |-> <<"missing_signal_", trace.signalId>>,
                           result |-> result]
                     ELSE CaptureTraces(request, interval, k + 1,
                                        [result EXCEPT !.traces = Append(@, data)])
         IN  Push(CaptureSamples(trace.signalId, request, interval, 0, <<>>))

\* The outer loop of capture over traces_, from trace k on; result is the
\* caller's OscilloscopeCaptureResult as filled so far.
CaptureTraces(request, interval, k, result) ==
    IF k > Len(traces) THEN [st |-> "ok", error |-> <<>>, result |-> result]
    ELSE IF ~traces[k].enabled
    THEN CaptureTraces(request, interval, k + 1, result)
    ELSE LET trace == traces[k]
             Push(s) ==
                 LET data == [id |-> trace.id, label |-> trace.label,
                              enabled |-> trace.enabled, samples |-> s.samples]
                 IN  IF s.st = "overflow"
                     THEN [st |-> "overflow", error |-> <<>>, result |-> result]
                     ELSE IF s.st = "fail"
                     THEN [st |-> "fail",
                           error |-> <<"missing_signal_", trace.signalId>>,
                           result |-> result]
                     ELSE CaptureTraces(request, interval, k + 1,
                                        [result EXCEPT !.traces = Append(@, data)])
         IN  Push(CaptureSamples(trace.signalId, request, interval, 0, <<>>))

\* OscilloscopeCaptureResult's member initialisers: what the caller passes.
EmptyCaptureResult == [sampleRate |-> Zero, traces |-> <<>>]

\* Oscilloscope::capture(request, result, error).
capture(request, result) ==
    IF FLe(request.sampleRate, Zero) \/ request.sampleCount = 0
    THEN [st |-> "fail", error |-> <<"invalid_sampling">>, result |-> result]
    ELSE CaptureTraces(request, FQuot(One, request.sampleRate), 1,
                       [result EXCEPT !.sampleRate = request.sampleRate,
                                      !.traces = <<>>])

(***************************************************************************)
(* Multimeter (Multimeter.cpp).                                            *)
(***************************************************************************)
configureInput(config) ==
    LET i == First({k \in 1..Len(inputs) : inputs[k].id = config.id})
    IN  IF Len(config.id) = 0 \/ Len(config.signalId) = 0
        THEN [ret |-> FALSE, inputs |-> inputs]
        ELSE IF i # 0 THEN [ret |-> TRUE, inputs |-> [inputs EXCEPT ![i] = config]]
        ELSE [ret |-> TRUE, inputs |-> Append(inputs, config)]

removeInput(id) ==
    LET i == First({k \in 1..Len(inputs) : inputs[k].id = id})
    IN  IF i # 0 THEN [ret |-> TRUE, inputs |-> Erase(inputs, i)]
        ELSE [ret |-> FALSE, inputs |-> inputs]

\* The loop of replaceInputs over configs, from entry i on; kept is inputs_
\* as filled so far.
RECURSIVE ReplaceLoop(_, _, _)
ReplaceLoop(configs, i, kept) ==
    IF i > Len(configs) THEN kept
    ELSE IF Len(configs[i].id) = 0 THEN ReplaceLoop(configs, i + 1, kept)
    ELSE IF Len(configs[i].signalId) = 0 /\ configs[i].enabled
    THEN ReplaceLoop(configs, i + 1, kept)
    ELSE ReplaceLoop(configs, i + 1, Append(kept, configs[i]))

\* replaceInputs as it would be without the inputs_.clear().
replaceInputsKeepsOld(configs) == ReplaceLoop(configs, 1, inputs)

\* Multimeter::replaceInputs: inputs_.clear(), then the loop.
replaceInputs(configs) == ReplaceLoop(configs, 1, <<>>)

\* The loop of computeSeriesMetrics, from sample i on.
RECURSIVE MetricsLoop(_, _, _)
MetricsLoop(samples, i, acc) ==
    IF i > Len(samples) THEN acc
    ELSE MetricsLoop(samples, i + 1,
            [minValue |-> IF FLt(samples[i], acc.minValue) THEN samples[i]
                          ELSE acc.minValue,
             maxValue |-> IF FGt(samples[i], acc.maxValue) THEN samples[i]
                          ELSE acc.maxValue,
             sum |-> FAdd(acc.sum, samples[i]),
             squareSum |-> FAdd(acc.squareSum, FMul(samples[i], samples[i]))])

\* static computeSeriesMetrics: what it returned and the four floats it set.
computeSeriesMetrics(samples) ==
    IF Len(samples) = 0
    THEN [ok |-> FALSE, minValue |-> NaN, maxValue |-> NaN, average |-> NaN,
          rms |-> NaN]
    ELSE LET Result(acc) ==
                 [ok |-> TRUE, minValue |-> acc.minValue,
                  maxValue |-> acc.maxValue,
                  average |-> FQuot(acc.sum, F(Len(samples))),
                  rms |-> FSqrt(FQuot(acc.squareSum, F(Len(samples))))]
         IN  Result(MetricsLoop(samples, 1,
                        [minValue |-> samples[1], maxValue |-> samples[1],
                         sum |-> Zero, squareSum |-> Zero]))

\* The loop of the AC_RMS case: the sum of the squared deviations.
RECURSIVE DeviationLoop(_, _, _, _)
DeviationLoop(samples, average, i, sum) ==
    IF i > Len(samples) THEN sum
    ELSE DeviationLoop(samples, average, i + 1,
            FAdd(sum, FMul(FSub(samples[i], average),
                           FSub(samples[i], average))))

\* The AC_RMS case as it would be if it took the RMS of the raw series.
acComponentRmsRaw(samples, average) ==
    FSqrt(FQuot(DeviationLoop(samples, Zero, 1, Zero), F(Len(samples))))

\* The AC_RMS case of measure.
acComponentRms(samples, average) ==
    FSqrt(FQuot(DeviationLoop(samples, average, 1, Zero), F(Len(samples))))

\* The switch of measure as it would be if DC gave the first sample.
ModeValueFirstSample(mode, samples, metrics) ==
    CASE mode = "DC" -> samples[1]
      [] mode = "AC_RMS" -> acComponentRms(samples, metrics.average)
      [] mode = "MIN" -> metrics.minValue
      [] mode = "MAX" -> metrics.maxValue
      [] mode = "AVERAGE" -> metrics.average
      [] mode = "PEAK_TO_PEAK" -> FSub(metrics.maxValue, metrics.minValue)

\* The switch (request.mode) of measure: result.value.
ModeValue(mode, samples, metrics) ==
    CASE mode = "DC" -> metrics.average
      [] mode = "AC_RMS" -> acComponentRms(samples, metrics.average)
      [] mode = "MIN" -> metrics.minValue
      [] mode = "MAX" -> metrics.maxValue
      [] mode = "AVERAGE" -> metrics.average
      [] mode = "PEAK_TO_PEAK" -> FSub(metrics.maxValue, metrics.minValue)

\* The sampling loop of measure as it would be if it left out a sample
\* that cannot be resolved and went on.
RECURSIVE MeasureSamplesSkipFailed(_, _, _, _, _)
MeasureSamplesSkipFailed(signalId, request, interval, i, samples) ==
    IF i >= request.sampleCount THEN [st |-> "ok", samples |-> samples]
    ELSE LET time == FAdd(request.startTime, FMul(interval, F(i)))
             Push(r) ==
                 IF r.st = "overflow" THEN [st |-> r.st, samples |-> samples]
                 ELSE MeasureSamplesSkipFailed(signalId, request, interval, i + 1,
                        IF r.st = "ok" THEN Append(samples, r.out) ELSE samples)
         IN  Push(sampleSignal(signalId, time, NaN, 0))

\* The sampling loop of measure over i, from sample i on.
RECURSIVE MeasureSamples(_, _, _, _, _)
MeasureSamples(signalId, request, interval, i, samples) ==
    IF i >= request.sampleCount THEN [st |-> "ok", samples |-> samples]
    ELSE LET time == FAdd(request.startTime, FMul(interval, F(i)))
             Push(r) ==
                 IF r.st # "ok" THEN [st |-> r.st, samples |-> samples]
                 ELSE MeasureSamples(signalId, request, interval, i + 1,
                                     Append(samples, r.out))
         IN  Push(sampleSignal(signalId, time, NaN, 0))

\* MultimeterMeasurementResult's member initialisers: what the caller passes.
EmptyMeasurementResult ==
    [inputId |-> "", mode |-> "DC", value |-> NaN, minValue |-> NaN,
     maxValue |-> NaN]

\* Multimeter::measure(request, result, error).
measure(request, result) ==
    LET selected == First({k \in 1..Len(inputs) : inputs[k].id = request.inputId})
        named == [result EXCEPT !.inputId = request.inputId,
                                !.mode = request.mode]
        Fail(error) == [st |-> "fail", error |-> error, result |-> named]
        Finish(samples, metrics) ==
            IF ~metrics.ok THEN Fail(<<"metrics_failed">>)
            ELSE [st |-> "ok", error |-> <<>>,
                  result |->
                    [named EXCEPT
                        !.value = ModeValue(request.mode, samples, metrics),
                        !.minValue = metrics.minValue,
                        !.maxValue = metrics.maxValue]]
        Sampled(s) ==
            IF s.st = "overflow"
            THEN [st |-> "overflow", error |-> <<>>, result |-> named]
            ELSE IF s.st = "fail"
            THEN Fail(<<"missing_signal_", inputs[selected].signalId>>)
            ELSE Finish(s.samples, computeSeriesMetrics(s.samples))
    IN  IF selected = 0 THEN Fail(<<"unknown_input_", request.inputId>>)
        ELSE IF ~inputs[selected].enabled
        THEN Fail(<<"input_disabled_", request.inputId>>)
        ELSE IF FLe(request.sampleRate, Zero) \/ request.sampleCount = 0
        THEN Fail(<<"invalid_sampling">>)
        ELSE Sampled(MeasureSamples(inputs[selected].signalId, request,
                                    FQuot(One, request.sampleRate), 0, <<>>))

(***************************************************************************)
(* The calls.  last records the call, its arguments, what it returned, the *)
(* error String and the out-parameter it filled.                           *)
(***************************************************************************)
Call(op, arg, ret, error, out) ==
    [op |-> op, arg |-> arg, ret |-> ret, error |-> error, out |-> out]

\* The argument of a call that takes an id.
IdArg(id) == [id |-> id]

\* The argument of registerSignal(nullptr): there is no object.
NullArg == [kind |-> "nullptr"]

Init ==
    /\ heap = <<>>
    /\ signals = <<>>
    /\ outputs = <<>>
    /\ expressionIds = <<>>
    /\ traces = <<>>
    /\ inputs = <<>>
    /\ mathExpression = MathExpressionInit
    /\ running = TRUE
    /\ last = Call("init", NullArg, TRUE, <<>>, <<>>)

ConfigureOutput(config) ==
    /\ running
    /\ LET Return(r) ==
               /\ heap' = Collect(r.heap, r.signals, r.outputs).heap
               /\ signals' = Collect(r.heap, r.signals, r.outputs).signals
               /\ outputs' = Collect(r.heap, r.signals, r.outputs).outputs
               /\ last' = Call("configureOutput", config, r.ret, r.error, <<>>)
       IN  Return(configureOutput(config))
    /\ UNCHANGED <<expressionIds, traces, running, inputs, mathExpression>>

RemoveOutput(id) ==
    /\ running
    /\ LET Return(r) ==
               /\ heap' = Collect(heap, r.signals, r.outputs).heap
               /\ signals' = Collect(heap, r.signals, r.outputs).signals
               /\ outputs' = Collect(heap, r.signals, r.outputs).outputs
               /\ last' = Call("removeOutput", IdArg(id), r.ret, <<>>, <<>>)
       IN  Return(removeOutput(id))
    /\ UNCHANGED <<expressionIds, traces, running, inputs, mathExpression>>

DefineExpression(config) ==
    /\ running
    /\ LET Return(r) ==
               /\ heap' = Collect(r.heap, r.signals, outputs).heap
               /\ signals' = Collect(r.heap, r.signals, outputs).signals
               /\ outputs' = Collect(r.heap, r.signals, outputs).outputs
               /\ expressionIds' = r.expressionIds
               /\ last' = Call("defineExpression", config, r.ret, r.error, <<>>)
       IN  Return(defineExpression(config))
    /\ UNCHANGED <<traces, running, inputs, mathExpression>>

RemoveExpression(id) ==
    /\ running
    /\ LET Return(r) ==
               /\ heap' = Collect(heap, r.signals, outputs).heap
               /\ signals' = Collect(heap, r.signals, outputs).signals
               /\ outputs' = Collect(heap, r.signals, outputs).outputs
               /\ expressionIds' = r.expressionIds
               /\ last' = Call("removeExpression", IdArg(id), r.ret, <<>>, <<>>)
       IN  Return(removeExpression(id))
    /\ UNCHANGED <<traces, running, inputs, mathExpression>>

\* A direct registerSignal, as setup() makes for the reference signals: the
\* caller makes the ConstantSignal obj and registers it.
RegisterSignal(obj) ==
    /\ running
    /\ LET signal == New(heap)
           h == Alloc(heap, signal, obj)
           r == registerSignal(h, signals, signal)
       IN  /\ heap' = Collect(h, r.signals, outputs).heap
           /\ signals' = Collect(h, r.signals, outputs).signals
           /\ outputs' = Collect(h, r.signals, outputs).outputs
           /\ last' = Call("registerSignal", obj, r.ret, <<>>, <<>>)
    /\ UNCHANGED <<expressionIds, traces, running, inputs, mathExpression>>

\* registerSignal(nullptr).
RegisterNull ==
    /\ running
    /\ LET r == registerSignal(heap, signals, NullPtr)
       IN  /\ signals' = r.signals
           /\ last' = Call("registerSignal", NullArg, r.ret, <<>>, <<>>)
    /\ UNCHANGED
          <<heap, outputs, expressionIds, traces, running, inputs, mathExpression>>

\* A direct removeSignal.
RemoveSignal(id) ==
    /\ running
    /\ LET r == removeSignal(heap, signals, id)
       IN  /\ heap' = Collect(heap, r.signals, outputs).heap
           /\ signals' = Collect(heap, r.signals, outputs).signals
           /\ outputs' = Collect(heap, r.signals, outputs).outputs
           /\ last' = Call("removeSignal", IdArg(id), r.ret, <<>>, <<>>)
    /\ UNCHANGED <<expressionIds, traces, running, inputs, mathExpression>>

\* sampleSignal(id, time, value) with float value = NAN, as its callers do.
SampleSignal(id, time) ==
    /\ running
    /\ LET Return(r) ==
               /\ running' = (r.st # "overflow")
               /\ last' = Call("sampleSignal", [id |-> id, time |-> time], r.st = "ok", <<>>,
                               r.out)
       IN  Return(sampleSignal(id, time, NaN, 0))
    /\ UNCHANGED
          <<heap, signals, outputs, expressionIds, traces, inputs, mathExpression>>

ConfigureTrace(config) ==
    /\ running
    /\ LET r == configureTrace(config)
       IN  /\ traces' = r.traces
           /\ last' = Call("configureTrace", config, r.ret, <<>>, <<>>)
    /\ UNCHANGED
          <<heap, signals, outputs, expressionIds, running, inputs, mathExpression>>

RemoveTrace(id) ==
    /\ running
    /\ LET r == removeTrace(id)
       IN  /\ traces' = r.traces
           /\ last' = Call("removeTrace", IdArg(id), r.ret, <<>>, <<>>)
    /\ UNCHANGED
          <<heap, signals, outputs, expressionIds, running, inputs, mathExpression>>

\* capture(request, capture, error) with a fresh OscilloscopeCaptureResult,
\* as the HTTP handler calls it.
Capture(request) ==
    /\ running
    /\ LET Return(r) ==
               /\ running' = (r.st # "overflow")
               /\ last' = Call("capture", request, r.st = "ok", r.error, r.result)
       IN  Return(capture(request, EmptyCaptureResult))
    /\ UNCHANGED
          <<heap, signals, outputs, expressionIds, traces, inputs, mathExpression>>

\* sampleSignalSeries(id, startTime, interval, count, out) with a vector
\* that holds nothing yet.
SampleSignalSeries(id, startTime, interval, count) ==
    /\ running
    /\ LET Return(r) ==
               /\ running' = (r.st # "overflow")
               /\ last' = Call("sampleSignalSeries",
                               [id |-> id, startTime |-> startTime,
                                interval |-> interval, count |-> count],
                               r.st = "ok", <<>>, r.out)
       IN  Return(sampleSignalSeries(id, startTime, interval, count, <<>>))
    /\ UNCHANGED
          <<heap, signals, outputs, expressionIds, traces, inputs, mathExpression>>

ConfigureInput(config) ==
    /\ running
    /\ LET r == configureInput(config)
       IN  /\ inputs' = r.inputs
           /\ last' = Call("configureInput", config, r.ret, <<>>, <<>>)
    /\ UNCHANGED
          <<heap, signals, outputs, expressionIds, traces, mathExpression, running>>

RemoveInput(id) ==
    /\ running
    /\ LET r == removeInput(id)
       IN  /\ inputs' = r.inputs
           /\ last' = Call("removeInput", IdArg(id), r.ret, <<>>, <<>>)
    /\ UNCHANGED
          <<heap, signals, outputs, expressionIds, traces, mathExpression, running>>

\* replaceInputs returns nothing.
ReplaceInputs(configs) ==
    /\ running
    /\ inputs' = replaceInputs(configs)
    /\ last' = Call("replaceInputs", [configs |-> configs], TRUE, <<>>, <<>>)
    /\ UNCHANGED
          <<heap, signals, outputs, expressionIds, traces, mathExpression, running>>

\* measure(request, result, error) with a fresh MultimeterMeasurementResult,
\* as the HTTP handler calls it.
\* measure as it would be if it switched off the input it has read.
MeasureDisables(request) ==
    /\ running
    /\ LET Return(r) ==
               /\ running' = (r.st # "overflow")
               /\ last' = Call("measure", request, r.st = "ok", r.error, r.result)
       IN  Return(measure(request, EmptyMeasurementResult))
    /\ inputs' = [k \in 1..Len(inputs) |->
                    IF inputs[k].id = request.inputId
                    THEN [inputs[k] EXCEPT !.enabled = FALSE] ELSE inputs[k]]
    /\ UNCHANGED <<heap, signals, outputs, expressionIds, traces, mathExpression>>

Measure(request) ==
    /\ running
    /\ LET Return(r) ==
               /\ running' = (r.st # "overflow")
               /\ last' = Call("measure", request, r.st = "ok", r.error, r.result)
       IN  Return(measure(request, EmptyMeasurementResult))
    /\ UNCHANGED
          <<heap, signals, outputs, expressionIds, traces, inputs, mathExpression>>

\* compile(expression, errorMessage) on the MathExpression.
Compile(expression) ==
    /\ running
    /\ LET Return(c) ==
               /\ mathExpression' = [expression |-> expression, root |-> c.root,
                                      variables |-> c.variables]
               /\ last' = Call("compile", [expression |-> expression], c.ok,
                               c.error, <<>>)
       IN  Return(compile(expression))
    /\ UNCHANGED
          <<heap, signals, outputs, expressionIds, traces, inputs, running>>

\* evaluate(resolver, out) on the MathExpression with float out = NAN and
\* the resolver of MathVirtualSignal::sample without bindings: a variable
\* is the id of the signal to sample at time.
Evaluate(time) ==
    /\ running
    /\ LET Return(r) ==
               /\ running' = (r.st # "overflow")
               /\ last' = Call("evaluate", [time |-> time], r.st = "ok", <<>>,
                               r.out)
       IN  Return(evaluate(mathExpression, <<>>, time, 0))
    /\ UNCHANGED
          <<heap, signals, outputs, expressionIds, traces, inputs, mathExpression>>

(***************************************************************************)
(* The requests made of the engine.                                        *)
(***************************************************************************)
Ids == {"a", "b"}

\* The empty String stands for a missing field.
IdArgs == Ids \cup {""}

Triangle1 ==
    [amplitude |-> One, offset |-> Zero, frequency |-> One, phase |-> Zero,
     dutyCycle |-> Rat(1, 2), shape |-> "Triangle"]

Level2 ==
    [amplitude |-> F(2), offset |-> Zero, frequency |-> One, phase |-> Zero,
     dutyCycle |-> Rat(1, 2), shape |-> "DC"]

OutputConfig(id, name, settings) ==
    [id |-> id, name |-> name, settings |-> settings, enabled |-> TRUE,
     units |-> "V"]

\* Two settings for the id a, one for b, a config without id, one without
\* name.
OutputConfigs ==
    {OutputConfig("a", "out", Triangle1), OutputConfig("a", "out", Level2),
     OutputConfig("b", "out", Level2),
     OutputConfig("", "out", Level2), OutputConfig("a", "", Level2)}

ExpressionConfig(id, name, expression) ==
    [id |-> id, name |-> name, expression |-> expression, bindings |-> <<>>,
     units |-> ""]

\* An expression that refers to itself, two that refer to each other, a
\* division by zero, and a config without id, one without name, one without
\* expression, one whose expression does not compile.
ExpressionConfigs ==
    {ExpressionConfig("a", "expr", <<"a">>),
     ExpressionConfig("a", "expr", <<"b">>),
     ExpressionConfig("b", "expr", <<"a">>),
     ExpressionConfig("b", "expr", <<"1", "/", "0">>)}
        \cup {ExpressionConfig("", "expr", <<"a">>),
              ExpressionConfig("a", "", <<"a">>),
              ExpressionConfig("a", "expr", <<>>),
              ExpressionConfig("a", "expr", <<"(", "a">>)}

DirectSignals == {ConstantSignal(id, "ref", F(5)) : id \in Ids}

Times == {Zero, Rat(1, 4)}

Next ==
    \/ \E config \in OutputConfigs : ConfigureOutput(config)
    \/ \E id \in IdArgs : RemoveOutput(id)
    \/ \E config \in ExpressionConfigs : DefineExpression(config)
    \/ \E id \in IdArgs : RemoveExpression(id)
    \/ \E obj \in DirectSignals : RegisterSignal(obj)
    \/ RegisterNull
    \/ \E id \in IdArgs : RemoveSignal(id)
    \/ \E id \in Ids, time \in Times : SampleSignal(id, time)

Spec == Init /\ [][Next]_vars

(***************************************************************************)
(* The oscilloscope over a registry of one generator output and of Math    *)
(* signals with a numeric domain error.                                    *)
(***************************************************************************)
MaxSampleCount == 2

\* A division by zero, the square root of a negative, the logarithm of zero.
DomainErrors ==
    {<<"1", "/", "0">>,
     <<"s", "q", "r", "t", "(", "0", "-", "1", ")">>,
     <<"l", "n", "(", "0", ")">>}

\* The Math signal a reads b; b is one of the domain errors.
ScopeExpressionConfigs ==
    {ExpressionConfig("a", "expr", <<"b">>)}
        \cup {ExpressionConfig("b", "expr", e) : e \in DomainErrors}

TraceConfig(id, signalId, enabled) ==
    [id |-> id, signalId |-> signalId, label |-> "", enabled |-> enabled]

\* The trace t1 on a and t2 on b, each enabled or not, t2 on a, a config
\* without id and one without signalId.
TraceConfigs ==
    {TraceConfig("t1", "a", enabled) : enabled \in BOOLEAN}
        \cup {TraceConfig("t2", "b", enabled) : enabled \in BOOLEAN}
        \cup {TraceConfig("t2", "a", TRUE)}
        \cup {TraceConfig("", "a", TRUE), TraceConfig("t1", "", TRUE)}

TraceIdArgs == {"t1", "t2", ""}

CaptureRequest(sampleRate, sampleCount) ==
    [startTime |-> Zero, sampleRate |-> sampleRate, sampleCount |-> sampleCount]

\* A valid request, one with sampleRate 0 and one with sampleCount 0.
CaptureRequests ==
    {CaptureRequest(F(4), MaxSampleCount), CaptureRequest(Zero, MaxSampleCount),
     CaptureRequest(F(4), 0)}

NextScope ==
    \/ ConfigureOutput(OutputConfig("a", "out", Triangle1))
    \/ RemoveOutput("a")
    \/ \E config \in ScopeExpressionConfigs : DefineExpression(config)
    \/ \E id \in Ids : RemoveExpression(id)
    \/ \E config \in TraceConfigs : ConfigureTrace(config)
    \/ \E id \in TraceIdArgs : RemoveTrace(id)
    \/ \E request \in CaptureRequests : Capture(request)
    \/ \E id \in Ids : SampleSignal(id, Zero)

SpecScope == Init /\ [][NextScope]_vars

(***************************************************************************)
(* The multimeter and the series sampling, each over a registry of one     *)
(* generator output a, and of b, a constant or the Math signal 1/a.        *)
(***************************************************************************)
MaxInputs == 2

\* 1/a is NaN where the triangle a is 0 (at t = 0 and t = 1/2) and is 1 or
\* -1 at t = 1/4 and t = 3/4.
Reciprocal == ExpressionConfig("b", "expr", <<"1", "/", "a">>)

MeterSignals == {ConstantSignal("b", "ref", c) : c \in {F(5), F(-3)}}

InputConfig(id, signalId, enabled) ==
    [id |-> id, signalId |-> signalId, label |-> "", enabled |-> enabled]

\* The input m1 on a, enabled or not, m2 on b, a config without id and one
\* without signalId.
InputConfigs ==
    {InputConfig("m1", "a", enabled) : enabled \in BOOLEAN}
        \cup {InputConfig("m2", "b", TRUE)}
        \cup {InputConfig("", "a", TRUE), InputConfig("m1", "", TRUE)}

InputIdArgs == {"m1", "m2", ""}

\* The entries of the lists given to replaceInputs: an input on b, a
\* placeholder (disabled, without signalId), an enabled entry without
\* signalId and an entry without id.
ReplaceConfigs ==
    {InputConfig("m1", "b", TRUE), InputConfig("m2", "", FALSE),
     InputConfig("m2", "", TRUE), InputConfig("", "a", TRUE)}

ReplaceLists == UNION {[1..n -> ReplaceConfigs] : n \in 0..MaxInputs}

Modes == {"DC", "AC_RMS", "MIN", "MAX", "AVERAGE", "PEAK_TO_PEAK"}

MeasurementRequest(inputId, mode, startTime, sampleRate, sampleCount) ==
    [inputId |-> inputId, mode |-> mode, startTime |-> startTime,
     sampleRate |-> sampleRate, sampleCount |-> sampleCount]

\* Every mode on m1 and m2 over two sampling windows (1/a has all its
\* samples in the second only), a window in which 1/a has its first sample
\* but not its second, and for every input id a request with sampleRate 0,
\* one with a negative sampleRate and one with sampleCount 0.
MeasurementRequests ==
    {MeasurementRequest(id, mode, Zero, F(4), MaxSampleCount) :
        id \in {"m1", "m2"}, mode \in Modes}
        \cup {MeasurementRequest(id, mode, Rat(1, 4), F(2), MaxSampleCount) :
                id \in {"m1", "m2"}, mode \in Modes}
        \cup {MeasurementRequest("m2", "DC", Rat(1, 4), F(4), MaxSampleCount),
              MeasurementRequest("", "DC", Zero, F(4), MaxSampleCount)}
        \cup {MeasurementRequest(id, "DC", Zero, rate, MaxSampleCount) :
                id \in InputIdArgs, rate \in {Zero, F(-4)}}
        \cup {MeasurementRequest(id, "DC", Zero, F(4), 0) : id \in InputIdArgs}

\* The windows given to sampleSignalSeries: start and interval.
SeriesWindows ==
    {<<Zero, Rat(1, 4)>>, <<Rat(1, 4), Rat(1, 4)>>, <<Rat(1, 4), Rat(1, 2)>>}

NextMeter ==
    \/ ConfigureOutput(OutputConfig("a", "out", Triangle1))
    \/ DefineExpression(Reciprocal)
    \/ \E obj \in MeterSignals : RegisterSignal(obj)
    \/ \E config \in InputConfigs : ConfigureInput(config)
    \/ \E id \in InputIdArgs : RemoveInput(id)
    \/ \E request \in MeasurementRequests : Measure(request)

SpecMeter == Init /\ [][NextMeter]_vars

\* The inputs of the multimeter alone.
NextInputs ==
    \/ \E config \in InputConfigs : ConfigureInput(config)
    \/ \E id \in InputIdArgs : RemoveInput(id)
    \/ \E configs \in ReplaceLists : ReplaceInputs(configs)

SpecInputs == Init /\ [][NextInputs]_vars

\* The series sampling over the same registry.
NextSeries ==
    \/ ConfigureOutput(OutputConfig("a", "out", Triangle1))
    \/ RemoveOutput("a")
    \/ DefineExpression(Reciprocal)
    \/ \E obj \in MeterSignals : RegisterSignal(obj)
    \/ \E id \in Ids, window \in SeriesWindows, count \in {0, MaxSampleCount} :
          SampleSignalSeries(id, window[1], window[2], count)

SpecSeries == Init /\ [][NextSeries]_vars

(***************************************************************************)
(* A MathExpression on its own, compiled and evaluated against a registry  *)
(* in which the constant a is registered or not, and b never is.           *)
(***************************************************************************)
\* a/0, sqrt(0-a), ln(0), log(0-a), log10(0): with a = 5, a division by zero,
\* the square root of a negative and logarithms of a non-positive value.
NumericErrors ==
    {<<"a", "/", "0">>, <<"s", "q", "r", "t", "(", "0", "-", "a", ")">>,
     <<"l", "n", "(", "0", ")">>, <<"l", "o", "g", "(", "0", "-", "a", ")">>,
     <<"l", "o", "g", "1", "0", "(", "0", ")">>}

\* Expressions with a variable that is never registered, a function name
\* that is not built in, or a built-in called with an argument count that
\* another count would suit.
FaultyExpressions ==
    {<<"b">>, <<"a", "+", "b">>, <<"b", "*", "a">>, <<"-", "b">>,
     <<"f", "o", "o", "(", "a", ")">>,
     <<"a", "b", "s", "(", "f", "o", "o", "(", ")", ")">>,
     <<"s", "i", "n", "(", "a", ",", "a", ")">>, <<"s", "i", "n", "(", ")">>,
     <<"p", "o", "w", "(", "a", ")">>,
     <<"c", "l", "a", "m", "p", "(", "a", ",", "a", ")">>,
     <<"m", "i", "n", "(", "b", ")">>}

\* min(), max(), sum(), avg(), mean().
NoArgumentCalls ==
    {<<"m", "i", "n", "(", ")">>, <<"m", "a", "x", "(", ")">>,
     <<"s", "u", "m", "(", ")">>, <<"a", "v", "g", "(", ")">>,
     <<"m", "e", "a", "n", "(", ")">>}

\* Expressions that evaluate to a number when a is registered.
SoundExpressions ==
    {<<"a">>, <<"a", "-", "5">>, <<"m", "i", "n", "(", "a", ")">>,
     <<"m", "a", "x", "(", "a", ",", "1", ")">>,
     <<"s", "u", "m", "(", "a", ",", "a", ")">>,
     <<"a", "v", "g", "(", "a", ",", "1", ")">>,
     <<"m", "e", "a", "n", "(", "a", ")">>,
     <<"p", "o", "w", "(", "a", ",", "2", ")">>,
     <<"c", "l", "a", "m", "p", "(", "a", ",", "0", ",", "1", ")">>,
     <<"s", "q", "r", "t", "(", "a", "-", "1", ")">>,
     <<"a", "b", "s", "(", "1", "-", "a", ")">>}

\* Texts that do not compile.
NotCompiling ==
    {<<"(", "a">>, <<"a", "+">>, <<"a", " ", "b">>}

EvalExpressions ==
    NumericErrors \cup FaultyExpressions \cup NoArgumentCalls
        \cup SoundExpressions \cup NotCompiling

NextEval ==
    \/ RegisterSignal(ConstantSignal("a", "ref", F(5)))
    \/ RemoveSignal("a")
    \/ \E expression \in EvalExpressions : Compile(expression)
    \/ Evaluate(Zero)

SpecEval == Init /\ [][NextEval]_vars

(***************************************************************************)
(* The grammar: a MathExpression compiled from three numbers joined by two *)
(* operators, bare and with either pair in parentheses, then evaluated.    *)
(***************************************************************************)
BinaryOperators == {"+", "-", "*", "/", "^"}

\* The numbers: 4/2 is integral and 3^(4^2) fits 32 bits.
OperandTriples == {<<"3", "4", "2">>, <<"2", "4", "2">>}

Bare(x, o1, y, o2, z) == <<x, o1, y, o2, z>>

LeftParenthesised(x, o1, y, o2, z) == <<"(", x, o1, y, ")", o2, z>>

RightParenthesised(x, o1, y, o2, z) == <<x, o1, "(", y, o2, z, ")">>

\* "2 + 3 * 4", "(2+3)*4" and "2^3^2".
DocumentedExpressions ==
    {<<"2", " ", "+", " ", "3", " ", "*", " ", "4">>,
     <<"(", "2", "+", "3", ")", "*", "4">>,
     <<"2", "^", "3", "^", "2">>}

GrammarExpressions ==
    DocumentedExpressions \cup
    UNION {{Bare(t[1], o1, t[2], o2, t[3]),
            LeftParenthesised(t[1], o1, t[2], o2, t[3]),
            RightParenthesised(t[1], o1, t[2], o2, t[3])} :
               t \in OperandTriples, o1 \in BinaryOperators,
               o2 \in BinaryOperators}

NextGrammar ==
    \/ \E expression \in GrammarExpressions : Compile(expression)
    \/ Evaluate(Zero)

SpecGrammar == Init /\ [][NextGrammar]_vars

(***************************************************************************)
(* Syntax: a MathExpression compiled from every short text over a letter,  *)
(* a digit, the parentheses, an operator, the dot, a blank and a character *)
(* the grammar has no use for.                                             *)
(***************************************************************************)
MaxTextLen == 3

TextAlphabet == {"a", "1", "(", ")", "+", ".", " ", "$"}

Texts == UNION {[1..n -> TextAlphabet] : n \in 0..MaxTextLen}

NextSyntax ==
    \/ \E expression \in Texts : Compile(expression)
    \/ Evaluate(Zero)

SpecSyntax == Init /\ [][NextSyntax]_vars

(***************************************************************************)
(* The Function Generator next to direct registrations: configs with and   *)
(* without id and name, on ids that are outputs, registered, or neither.   *)
(***************************************************************************)
GeneratorConfigs ==
    {OutputConfig(id, name, settings) :
        id \in IdArgs, name \in {"out", ""}, settings \in {Triangle1, Level2}}

NextGenerator ==
    \/ \E config \in GeneratorConfigs : ConfigureOutput(config)
    \/ \E id \in IdArgs : RemoveOutput(id)
    \/ \E obj \in DirectSignals : RegisterSignal(obj)

SpecGenerator == Init /\ [][NextGenerator]_vars

(***************************************************************************)
(* The oscilloscope's trace list under configureTrace and removeTrace.     *)
(***************************************************************************)
\* The traces of the captures and a third trace t3 on b.
UpsertTraceConfigs == TraceConfigs \cup {TraceConfig("t3", "b", TRUE)}

NextTraces ==
    \/ \E config \in UpsertTraceConfigs : ConfigureTrace(config)
    \/ \E id \in TraceIdArgs \cup {"t3"} : RemoveTrace(id)

SpecTraces == Init /\ [][NextTraces]_vars

(***************************************************************************)
(* A Square output a with duty cycles below, at, between and above the     *)
(* limits, sampled around the edges of the period.                         *)
(***************************************************************************)
DutyCycles ==
    {F(-1), Zero, Rat(1, 256), Rat(1, 100), Rat(1, 2), Rat(99, 100),
     Rat(255, 256), One, F(2)}

SquareSettings(dutyCycle, amplitude, frequency) ==
    [amplitude |-> amplitude, offset |-> One, frequency |-> frequency,
     phase |-> Zero, dutyCycle |-> dutyCycle, shape |-> "Square"]

SquareTimes == {Zero, Rat(1, 128), Rat(1, 4), Rat(3, 4), Rat(127, 128)}

NextSquare ==
    \/ \E dutyCycle \in DutyCycles, amplitude \in {One, F(2)},
          frequency \in {One, F(2)} :
          ConfigureOutput(OutputConfig("a", "out",
              SquareSettings(dutyCycle, amplitude, frequency)))
    \/ \E time \in SquareTimes : SampleSignal("a", time)

SpecSquare == Init /\ [][NextSquare]_vars

(***************************************************************************)
(* Bindings: the Math signal m of expression "a" with binding tables that  *)
(* have no entry for a, one entry, two entries, or an entry for another    *)
(* variable, over the constants a = 5 and b = 7 registered or not.         *)
(***************************************************************************)
VariableBinding(variable, signalId) ==
    [variable |-> variable, signalId |-> signalId]

BindingTables ==
    {<<>>,
     <<VariableBinding("a", "b")>>,
     <<VariableBinding("a", "b"), VariableBinding("a", "a")>>,
     <<VariableBinding("b", "b")>>,
     <<VariableBinding("b", "a"), VariableBinding("a", "b")>>}

BoundConfigs ==
    {[ExpressionConfig("m", "expr", <<"a">>) EXCEPT !.bindings = table] :
        table \in BindingTables}

BoundSignals ==
    {ConstantSignal("a", "ref", F(5)), ConstantSignal("b", "ref", F(7))}

NextBindings ==
    \/ \E config \in BoundConfigs : DefineExpression(config)
    \/ \E obj \in BoundSignals : RegisterSignal(obj)
    \/ \E id \in Ids : RemoveSignal(id)
    \/ SampleSignal("m", Zero)

SpecBindings == Init /\ [][NextBindings]_vars

(***************************************************************************)
(* After boot: setup() has registered the references REF5, REF12 and GND,  *)
(* and the HTTP handlers pass the ids of their requests on as they come.   *)
(***************************************************************************)
\* A reference as setup() builds it (names without their accents).
ReferenceSignal(id, name, value) ==
    [ConstantSignal(id, name, value) EXCEPT !.units = "V"]

InitBoot ==
    /\ heap = <<ReferenceSignal("REF5", "Reference 5 V", F(5)),
                ReferenceSignal("REF12", "Reference 12 V", F(12)),
                ReferenceSignal("GND", "Masse virtuelle", Zero)>>
    /\ signals = <<1, 2, 3>>
    /\ outputs = <<>>
    /\ expressionIds = <<>>
    /\ traces = <<>>
    /\ inputs = <<>>
    /\ mathExpression = MathExpressionInit
    /\ running = TRUE
    /\ last = Call("init", NullArg, TRUE, <<>>, <<>>)

\* Requests on an id of their own and on the id of a reference.
NextBoot ==
    \/ \E id \in {"x", "REF5"} : ConfigureOutput(OutputConfig(id, "out", Level2))
    \/ \E id \in {"x", "REF5"} : RemoveOutput(id)
    \/ \E id \in {"x", "REF12"} :
          DefineExpression(ExpressionConfig(id, "expr", <<"G", "N", "D">>))
    \/ \E id \in {"x", "REF12"} : RemoveExpression(id)
    \/ ConfigureTrace(TraceConfig("t1", "GND", TRUE))
    \/ RemoveTrace("t1")
    \/ ConfigureInput(InputConfig("m1", "GND", TRUE))
    \/ RemoveInput("m1")

SpecBoot == InitBoot /\ [][NextBoot]_vars

(***************************************************************************)
(* The four reading calls over one registry: the output a, the Math signal *)
(* b = 1/a, a trace and an input on each.                                  *)
(***************************************************************************)
ReaderRequests ==
    {MeasurementRequest(id, mode, Rat(1, 4), rate, MaxSampleCount) :
        id \in {"m1", "m2"}, mode \in {"DC", "AC_RMS"}, rate \in {F(4), Zero}}

NextReaders ==
    \/ ConfigureOutput(OutputConfig("a", "out", Triangle1))
    \/ DefineExpression(Reciprocal)
    \/ \E id \in Ids : ConfigureTrace(TraceConfig("t1", id, TRUE))
    \/ \E enabled \in BOOLEAN : ConfigureInput(InputConfig("m1", "a", enabled))
    \/ ConfigureInput(InputConfig("m2", "b", TRUE))
    \/ \E id \in Ids, time \in Times : SampleSignal(id, time)
    \/ \E id \in Ids, window \in SeriesWindows :
          SampleSignalSeries(id, window[1], window[2], MaxSampleCount)
    \/ \E request \in CaptureRequests : Capture(request)
    \/ \E request \in ReaderRequests : Measure(request)

SpecReaders == Init /\ [][NextReaders]_vars

(***************************************************************************)
(* Properties.                                                             *)
(***************************************************************************)
\* The object registered under id; id is registered.
SignalOf(id) == heap[findSignalInternal(id)]

IsRegistered(id) == findSignalInternal(id) # NullPtr

\* C1: in every reachable state every Function Generator output has a
\* signal registered in the Workspace under its id, and that signal is the
\* Waveform signal the output refers to.
C1_FacadeBacked ==
    \A k \in 1..Len(outputs) :
        /\ IsRegistered(outputs[k].id)
        /\ findSignalInternal(outputs[k].id) = outputs[k].signal
        /\ heap[outputs[k].signal].kind = "Waveform"

\* C2: removeOutput(id) returns true exactly when the Function Generator
\* holds an output with that id; after it returned true the Function
\* Generator has no output with that id and sampleSignal(id, t) fails for
\* every t.
C2_Step ==
    \A id \in IdArgs :
        (last'.op = "removeOutput" /\ last'.arg = IdArg(id)) =>
            /\ last'.ret = (findOutput(id) # 0)
            /\ last'.ret =>
                  /\ (findOutput(id) = 0)'
                  /\ \A t \in Times :
                        (sampleSignal(id, t, NaN, 0) = Returned("fail", NaN))'

C2_RemoveOutputRoundTrip == [][C2_Step]_vars

C2_Witness ==
    /\ last.op = "removeOutput"
    /\ last.ret
    /\ Len(outputs) = 1

\* C3: no two entries of the Workspace signal table have the same id.
C3_UniqueIds ==
    \A i, j \in 1..Len(signals) :
        heap[signals[i]].id = heap[signals[j]].id => i = j

C3_Witness ==
    /\ last.op = "defineExpression"
    /\ last.ret
    /\ Len(signals) = 2
    /\ \E k \in 1..Len(outputs) : outputs[k].id = last.arg.id

\* C4: registerSignal with a non-null signal returns true (so the callers'
\* duplicate_signal never happens); when the id is already registered the
\* new signal takes exactly that entry's position and the number of entries
\* and every other entry are unchanged, else it is added at the end; later
\* samples of the id are the new signal's; removeSignal on an id that is
\* not registered returns false and leaves the table unchanged.
C4_Step ==
    /\ last'.error # <<"duplicate_signal">>
    /\ \A obj \in DirectSignals :
          (last'.op = "registerSignal" /\ last'.arg = obj) =>
              LET i == First({k \in 1..Len(signals) :
                                heap[signals[k]].id = obj.id})
              IN  /\ last'.ret
                  /\ IF i # 0
                     THEN /\ Len(signals') = Len(signals)
                          /\ heap'[signals'[i]] = obj
                          /\ \A k \in 1..Len(signals) :
                                k # i => heap'[signals'[k]] = heap[signals[k]]
                     ELSE /\ Len(signals') = Len(signals) + 1
                          /\ heap'[signals'[Len(signals')]] = obj
                          /\ \A k \in 1..Len(signals) :
                                heap'[signals'[k]] = heap[signals[k]]
                  /\ \A t \in Times :
                        (sampleSignal(obj.id, t, NaN, 0)
                            = Returned("ok", obj.value))'
    /\ (last'.op = "registerSignal" /\ last'.arg = NullArg) =>
          /\ ~last'.ret
          /\ signals' = signals
    /\ \A id \in IdArgs :
          (last'.op = "removeSignal" /\ last'.arg = IdArg(id)) =>
              /\ last'.ret = IsRegistered(id)
              /\ ~last'.ret => (signals' = signals /\ heap' = heap)

C4_RegisterReplacesInPlace == [][C4_Step]_vars

C4_Witness ==
    /\ last.op = "registerSignal"
    /\ last.ret
    /\ Len(signals) = 2
    /\ heap[signals[1]] = last.arg

\* C5: a sampleSignal(id, t) that returns fails exactly when no signal with
\* that id is registered or the signal's own sample at t is NaN, and in
\* every other case returns true with the signal's own sample.
C5_SampleSignalFailure ==
    /\ \A id \in Ids, t \in Times :
          sampleSignal(id, t, NaN, 0).st # "overflow" =>
              IF ~IsRegistered(id)
              THEN sampleSignal(id, t, NaN, 0).st = "fail"
              ELSE /\ (sampleSignal(id, t, NaN, 0).st = "fail")
                        <=> IsNaN(SignalSample(SignalOf(id), t, 1).out)
                   /\ sampleSignal(id, t, NaN, 0).out
                        = SignalSample(SignalOf(id), t, 1).out
    /\ (last.op = "sampleSignal" /\ running) =>
          /\ last.ret = (sampleSignal(last.arg.id, last.arg.time, NaN, 0).st = "ok")
          /\ last.out = sampleSignal(last.arg.id, last.arg.time, NaN, 0).out

C5_Witness ==
    /\ last.op = "sampleSignal"
    /\ running
    /\ ~last.ret
    /\ IsRegistered(last.arg.id)
    /\ IsNaN(last.out)

\* The Math signal registered under id has one of the domain errors as its
\* expression.
HasDomainError(id) ==
    /\ IsRegistered(id)
    /\ SignalOf(id).kind = "Math"
    /\ SignalOf(id).expression \in DomainErrors

\* The Math signal registered under id has the variable v as its expression.
Reads(id, v) ==
    /\ IsRegistered(id)
    /\ SignalOf(id).kind = "Math"
    /\ SignalOf(id).compiled.root = VariableNode(v)

ValidSampling(request) ==
    FGt(request.sampleRate, Zero) /\ request.sampleCount # 0

\* C6, as the code has it: a numeric domain error inside a Math signal is
\* not a failure of the evaluation, which returns NaN, and the signal's own
\* sample is NaN; but sampleSignal on that signal returns false, so does
\* sampleSignal on a downstream Math signal that reads it, and a capture
\* with valid sampling and an enabled trace on either fails with a
\* missing_signal_ error.
C6_DomainErrorFailsSample ==
    \A id \in Ids :
        HasDomainError(id) =>
            /\ evaluate(SignalOf(id).compiled, SignalOf(id).bindings, Zero, 1)
                  = Returned("ok", NaN)
            /\ MathSample(SignalOf(id), Zero, 1) = Returned("ok", NaN)
            /\ sampleSignal(id, Zero, NaN, 0) = Returned("fail", NaN)
            /\ \A down \in Ids :
                  Reads(down, id) =>
                      sampleSignal(down, Zero, NaN, 0) = Returned("fail", NaN)
            /\ ( /\ last.op = "capture"
                 /\ ValidSampling(last.arg)
                 /\ \E k \in 1..Len(traces) :
                       /\ traces[k].enabled
                       /\ \/ traces[k].signalId = id
                          \/ Reads(traces[k].signalId, id) )
                  => (~last.ret /\ last.error[1] = "missing_signal_")

C6_Witness ==
    /\ last.op = "capture"
    /\ ~last.ret
    /\ Len(traces) = 1
    /\ traces[1].signalId = "a"
    /\ Reads("a", "b")
    /\ HasDomainError("b")

\* C6, as the claim has it: a numeric domain error inside a Math signal is
\* not a failure: sampling the signal and a downstream Math signal that
\* reads it gives a NaN reading, and a capture with valid sampling whose
\* enabled traces are all on registered signals does not abort.
C6_DomainErrorIsNotFailure ==
    \A id \in Ids :
        HasDomainError(id) =>
            /\ sampleSignal(id, Zero, NaN, 0) = Returned("ok", NaN)
            /\ \A down \in Ids :
                  Reads(down, id) =>
                      sampleSignal(down, Zero, NaN, 0) = Returned("ok", NaN)
            /\ ( /\ last.op = "capture"
                 /\ ValidSampling(last.arg)
                 /\ \A k \in 1..Len(traces) :
                       traces[k].enabled => IsRegistered(traces[k].signalId) )
                  => last.ret

\* C7: in every reachable registry state sampleSignal(id, t) terminates,
\* returning a value or a failure.
C7_SampleSignalReturns ==
    /\ running
    /\ \A id \in Ids, t \in Times :
          sampleSignal(id, t, NaN, 0).st \in {"ok", "fail"}

\* C8: defineExpression with an expression that compiles succeeds whether
\* or not the ids it refers to are registered; a Math signal that reads v
\* fails to sample while v is not registered, whatever happened before,
\* and samples as v does while v is registered.
C8_ResolvedPerSample ==
    /\ \A config \in ExpressionConfigs :
          ( /\ last.op = "defineExpression"
            /\ last.arg = config
            /\ Len(config.id) > 0 /\ Len(config.name) > 0
            /\ Len(config.expression) > 0
            /\ compile(config.expression).ok )
              => /\ last.ret
                 /\ SignalOf(config.id).expression = config.expression
    /\ \A id \in Ids, v \in Ids, t \in Times :
          ( /\ id # v
            /\ Reads(id, v)
            /\ sampleSignal(id, t, NaN, 0).st # "overflow" )
              => IF IsRegistered(v)
                 THEN sampleSignal(id, t, NaN, 0) = sampleSignal(v, t, NaN, 0)
                 ELSE sampleSignal(id, t, NaN, 0) = Returned("fail", NaN)

C8_Witness ==
    /\ last.op = "sampleSignal"
    /\ last.arg.id = "a"
    /\ last.ret
    /\ Reads("a", "b")
    /\ SignalOf("b").kind = "Constant"

\* C9: when capture returns failure the result handed back to the caller
\* contains no trace data.
C9_NoPartialResult ==
    (last.op = "capture" /\ ~last.ret) => last.out.traces = <<>>

\* The times at which a capture samples.
SampleTimes(request) ==
    {FAdd(request.startTime, FMul(FQuot(One, request.sampleRate), F(i))) :
        i \in 0..(request.sampleCount - 1)}

\* The trace k is enabled and one of its samples cannot be resolved.
Unresolved(k, request) ==
    /\ traces[k].enabled
    /\ \E t \in SampleTimes(request) :
          sampleSignal(traces[k].signalId, t, NaN, 0).st # "ok"

\* C10: with valid sampling parameters capture fails exactly when some
\* enabled trace has a sample that cannot be resolved, and the error is
\* missing_signal_ followed by the signalId of the first such trace in
\* configuration order; a disabled trace never makes capture fail.
C10_CaptureFailure ==
    (last.op = "capture" /\ ValidSampling(last.arg)) =>
        /\ last.ret = (\A k \in 1..Len(traces) : ~Unresolved(k, last.arg))
        /\ ~last.ret =>
              last.error =
                <<"missing_signal_",
                  traces[First({k \in 1..Len(traces) :
                                  Unresolved(k, last.arg)})].signalId>>

C10_Witness ==
    /\ last.op = "capture"
    /\ ValidSampling(last.arg)
    /\ ~last.ret
    /\ Len(traces) = 2
    /\ Unresolved(1, last.arg)
    /\ Unresolved(2, last.arg)
    /\ last.error = <<"missing_signal_", "b">>

IsEnabled(trace) == trace.enabled

\* The enabled traces, in configuration order.
EnabledTraces == SelectSeq(traces, IsEnabled)

\* What sampling signalId gives at startTime + i / sampleRate, for the
\* sampleCount values of i from 0.
SeriesOf(signalId, request) ==
    [n \in 1..request.sampleCount |->
        sampleSignal(signalId,
                     FAdd(request.startTime,
                          FQuot(F(n - 1), request.sampleRate)),
                     NaN, 0).out]

\* C11: a capture that succeeded handed back one record per enabled trace,
\* in configuration order, with the trace's id and label and exactly
\* sampleCount samples, sample i being the trace's signal sampled at
\* startTime + i / sampleRate; a disabled trace has no record.
C11_CaptureRecords ==
    (last.op = "capture" /\ last.ret) =>
        /\ Len(last.out.traces) = Len(EnabledTraces)
        /\ \A k \in 1..Len(EnabledTraces) :
              /\ last.out.traces[k].id = EnabledTraces[k].id
              /\ last.out.traces[k].label = EnabledTraces[k].label
              /\ last.out.traces[k].enabled
              /\ Len(last.out.traces[k].samples) = last.arg.sampleCount
              /\ last.out.traces[k].samples
                    = SeriesOf(EnabledTraces[k].signalId, last.arg)

C11_Witness ==
    /\ last.op = "capture"
    /\ last.ret
    /\ Len(traces) = 2
    /\ traces[1].id = "t2"
    /\ Len(last.out.traces) = 2
    /\ last.out.traces[1].id = "t2"
    /\ last.out.traces[2].samples[2] = One

\* C12: when sampleSignalSeries returns failure the output sequence handed
\* back to the caller holds no samples.
C12_SeriesAtomic ==
    (last.op = "sampleSignalSeries" /\ ~last.ret) => last.out = <<>>

\* The argument counts the built-ins are documented with: one for the
\* functions of Arity1, at least one for min, max, sum, avg and mean, two
\* for pow, three for clamp; any other name is unsupported.
DocumentedCall(name, count) ==
    IF name \in Arity1 THEN count = 1
    ELSE IF name \in {"min", "max", "sum", "avg", "mean"} THEN count >= 1
    ELSE IF name = "pow" THEN count = 2
    ELSE IF name = "clamp" THEN count = 3
    ELSE FALSE

\* node or a node below it is a Variable that the resolver cannot resolve
\* at time, or a Function with an unsupported name or a wrong argument
\* count.
RECURSIVE HasFault(_, _)
HasFault(node, time) ==
    \/ /\ node.type = "Variable"
       /\ sampleSignal(node.identifier, time, NaN, 0).st # "ok"
    \/ /\ node.type = "Function"
       /\ ~DocumentedCall(node.identifier, Len(node.children))
    \/ \E k \in 1..Len(node.children) : HasFault(node.children[k], time)

\* C13: evaluate returns a hard failure exactly when nothing is compiled,
\* or some Variable cannot be resolved, or some Function node has an
\* unsupported name or a wrong argument count; a division by zero, the
\* square root of a negative and a logarithm of a non-positive value
\* return success with NaN.
C13_HardFailure ==
    (last.op = "evaluate" /\ running) =>
        /\ ~last.ret <=>
              \/ mathExpression.root = NullNode
              \/ HasFault(mathExpression.root, last.arg.time)
        /\ (mathExpression.expression \in NumericErrors /\ IsRegistered("a"))
              => (last.ret /\ IsNaN(last.out))

\* C14: evaluate returns a hard failure for min, max, sum, avg and mean
\* called with no argument.
C14_VariadicNeedsArgument ==
    ( /\ last.op = "evaluate"
      /\ mathExpression.root.type = "Function"
      /\ mathExpression.root.identifier \in {"min", "max", "sum", "avg", "mean"}
      /\ mathExpression.root.children = <<>> )
        => ~last.ret

\* The series a measure samples: the signal of the first input with the
\* requested id, at startTime + i / sampleRate for the sampleCount values
\* of i from 0.
MeasuredSeries(request) ==
    SeriesOf(inputs[First({k \in 1..Len(inputs) :
                            inputs[k].id = request.inputId})].signalId,
             request)

Values(S) == {S[n] : n \in 1..Len(S)}

Minimum(S) == CHOOSE v \in Values(S) : \A w \in Values(S) : FLe(v, w)

Maximum(S) == CHOOSE v \in Values(S) : \A w \in Values(S) : FGe(v, w)

RECURSIVE Total(_)
Total(S) == IF S = <<>> THEN Zero ELSE FAdd(Head(S), Total(Tail(S)))

Average(S) == FQuot(Total(S), F(Len(S)))

\* C15: after a measure that succeeded over the sampled series S, the
\* value is average(S) for DC and AVERAGE, min(S) for MIN, max(S) for MAX
\* and max(S) - min(S) for PEAK_TO_PEAK, and minValue and maxValue are
\* min(S) and max(S) whatever the mode.
C15_ModeValues ==
    (last.op = "measure" /\ last.ret) =>
        LET Holds(S) ==
                /\ last.arg.mode \in {"DC", "AVERAGE"}
                      => last.out.value = Average(S)
                /\ last.arg.mode = "MIN" => last.out.value = Minimum(S)
                /\ last.arg.mode = "MAX" => last.out.value = Maximum(S)
                /\ last.arg.mode = "PEAK_TO_PEAK"
                      => last.out.value = FSub(Maximum(S), Minimum(S))
                /\ last.out.minValue = Minimum(S)
                /\ last.out.maxValue = Maximum(S)
        IN  Holds(MeasuredSeries(last.arg))

C15_Witness ==
    /\ last.op = "measure"
    /\ last.ret
    /\ last.arg.mode = "PEAK_TO_PEAK"
    /\ last.out.minValue = F(-1)
    /\ last.out.maxValue = One
    /\ last.out.value = F(2)

\* The index in inputs_ of the input a measure selects, 0 when there is
\* none.
Selected(request) ==
    First({k \in 1..Len(inputs) : inputs[k].id = request.inputId})

\* C16: a measure with valid sampling on an enabled input whose signal is
\* a Constant of value c succeeds, with value = minValue = maxValue = c in
\* DC mode and the value 0 in AC_RMS and in PEAK_TO_PEAK mode.
C16_ConstantReading ==
    ( /\ last.op = "measure"
      /\ Selected(last.arg) # 0
      /\ inputs[Selected(last.arg)].enabled
      /\ ValidSampling(last.arg)
      /\ IsRegistered(inputs[Selected(last.arg)].signalId)
      /\ SignalOf(inputs[Selected(last.arg)].signalId).kind = "Constant" )
        => LET c == SignalOf(inputs[Selected(last.arg)].signalId).value
           IN  /\ last.ret
               /\ last.out.minValue = c
               /\ last.out.maxValue = c
               /\ last.arg.mode = "DC" => last.out.value = c
               /\ last.arg.mode = "AC_RMS" => last.out.value = Zero
               /\ last.arg.mode = "PEAK_TO_PEAK" => last.out.value = Zero

C16_Witness ==
    /\ last.op = "measure"
    /\ last.ret
    /\ last.arg.mode = "AC_RMS"
    /\ last.arg.startTime = Rat(1, 4)
    /\ IsRegistered("b")
    /\ SignalOf("b").kind = "Constant"
    /\ last.out.minValue = F(-3)
    /\ last.out.value = Zero

\* C17: measure fails with unknown_input_<id> when no input has the
\* requested id, else with input_disabled_<id> when the input is disabled,
\* else with invalid_sampling when sampleRate <= 0 or sampleCount = 0, else
\* with missing_signal_<signalId> when a sample of the input's signal
\* cannot be resolved, and succeeds in every other case.
C17_MeasureFailure ==
    last.op = "measure" =>
        LET k == Selected(last.arg)
            Failed(error) == ~last.ret /\ last.error = error
        IN  IF k = 0 THEN Failed(<<"unknown_input_", last.arg.inputId>>)
            ELSE IF ~inputs[k].enabled
            THEN Failed(<<"input_disabled_", last.arg.inputId>>)
            ELSE IF FLe(last.arg.sampleRate, Zero) \/ last.arg.sampleCount = 0
            THEN Failed(<<"invalid_sampling">>)
            ELSE IF \E t \in SampleTimes(last.arg) :
                        sampleSignal(inputs[k].signalId, t, NaN, 0).st # "ok"
            THEN Failed(<<"missing_signal_", inputs[k].signalId>>)
            ELSE last.ret /\ last.error = <<>>

C17_Witness ==
    /\ last.op = "measure"
    /\ ~last.ret
    /\ last.arg.sampleCount = 0
    /\ last.error = <<"input_disabled_", "m1">>

\* An entry replaceInputs is said to keep: it has an id, and a signalId
\* unless it is disabled.
IsKept(config) ==
    Len(config.id) > 0 /\ (Len(config.signalId) > 0 \/ ~config.enabled)

\* C18: after replaceInputs(configs) the inputs are exactly the entries of
\* configs, in order, that have a non-empty id and either a non-empty
\* signalId or enabled = false; no input held before the call is left.
C18_ReplaceInputs ==
    last.op = "replaceInputs" => inputs = SelectSeq(last.arg.configs, IsKept)

C18_Witness ==
    /\ last.op = "replaceInputs"
    /\ Len(last.arg.configs) = 2
    /\ last.arg.configs[1] = InputConfig("m2", "", TRUE)
    /\ inputs = <<InputConfig("m2", "", FALSE)>>

\* C19: removeTrace changes only the trace list: the Workspace signal
\* table, the signal objects and the other instruments are as before
\* (sampleSignal reads nothing but signals and heap, so every signal
\* samples as it did); it returns true exactly when a trace has the id,
\* and then the first trace with that id is gone and the others are as
\* before; on an id no trace has it returns false and changes nothing.
C19_Step ==
    \A id \in TraceIdArgs :
        (last'.op = "removeTrace" /\ last'.arg = IdArg(id)) =>
            LET i == First({k \in 1..Len(traces) : traces[k].id = id})
            IN  /\ heap' = heap /\ signals' = signals
                /\ outputs' = outputs /\ expressionIds' = expressionIds
                /\ inputs' = inputs /\ mathExpression' = mathExpression
                /\ last'.ret = (i # 0)
                /\ IF i # 0 THEN traces' = Erase(traces, i)
                   ELSE traces' = traces

C19_RemoveTraceFrame == [][C19_Step]_vars

C19_Witness ==
    /\ last.op = "removeTrace"
    /\ last.ret
    /\ Len(traces) = 1
    /\ traces[1].id = "t2"
    /\ sampleSignal("a", Zero, NaN, 0).st = "ok"

\* The level of a binary operator in the grammar: '+' and '-' are the
\* loosest, then '*' and '/', then '^'.
Level(op) == IF op \in {"+", "-"} THEN 1 ELSE IF op \in {"*", "/"} THEN 2 ELSE 3

NumberOf(c) == IF c = "2" THEN 2 ELSE IF c = "3" THEN 3 ELSE 4

Leaf(c) == ConstantNode(F(NumberOf(c)))

\* The Binary node of an operator and its two operands.
Joined(op, left, right) == MkNode("Binary", Zero, op, "", <<left, right>>)

\* (x o1 y) o2 z and x o1 (y o2 z) as trees.
GroupedLeft(x, o1, y, o2, z) ==
    Joined(o2, Joined(o1, Leaf(x), Leaf(y)), Leaf(z))

GroupedRight(x, o1, y, o2, z) ==
    Joined(o1, Leaf(x), Joined(o2, Leaf(y), Leaf(z)))

\* x o1 y o2 z groups to the right when o2 binds tighter than o1, or when
\* both are '^'; otherwise to the left.
BareTree(x, o1, y, o2, z) ==
    IF Level(o2) > Level(o1) \/ (o1 = "^" /\ o2 = "^")
    THEN GroupedRight(x, o1, y, o2, z)
    ELSE GroupedLeft(x, o1, y, o2, z)

\* The value of a tree of two operators over three numbers.
ValueOf(tree) ==
    LET Side(n) ==
            IF n.type = "Constant" THEN n.constant
            ELSE applyBinary(n.op, n.children[1].constant,
                             n.children[2].constant)
    IN  applyBinary(tree.op, Side(tree.children[1]), Side(tree.children[2]))

\* What compiling the text then evaluating it gives when the root is tree.
CompilesTo(text, tree) ==
    /\ (last.op = "compile" /\ last.arg.expression = text) =>
           last.ret /\ mathExpression.root = tree
    /\ (last.op = "evaluate" /\ mathExpression.expression = text) =>
           last.ret /\ last.out = ValueOf(tree)

EvaluatesTo(text, value) ==
    (last.op = "evaluate" /\ mathExpression.expression = text) =>
        last.ret /\ last.out = F(value)

\* C20: the compiled tree follows the grammar's precedence and
\* associativity: in x o1 y o2 z the second operator takes y when it is
\* '*' or '/' after '+' or '-', or '^' after any other operator, or when
\* both are '^'; in every other case the first operator takes y; a
\* parenthesised pair is one operand whatever the operators.  The value is
\* that of the tree: 2 + 3 * 4 is 14, (2+3)*4 is 20 and 2^3^2 is 512.
C20_Precedence ==
    /\ \A t \in OperandTriples : \A o1 \in BinaryOperators :
         \A o2 \in BinaryOperators :
            /\ CompilesTo(Bare(t[1], o1, t[2], o2, t[3]),
                          BareTree(t[1], o1, t[2], o2, t[3]))
            /\ CompilesTo(LeftParenthesised(t[1], o1, t[2], o2, t[3]),
                          GroupedLeft(t[1], o1, t[2], o2, t[3]))
            /\ CompilesTo(RightParenthesised(t[1], o1, t[2], o2, t[3]),
                          GroupedRight(t[1], o1, t[2], o2, t[3]))
    /\ EvaluatesTo(<<"2", " ", "+", " ", "3", " ", "*", " ", "4">>, 14)
    /\ EvaluatesTo(<<"(", "2", "+", "3", ")", "*", "4">>, 20)
    /\ EvaluatesTo(<<"2", "^", "3", "^", "2">>, 512)

C20_Witness ==
    /\ last.op = "evaluate"
    /\ mathExpression.expression = <<"2", "^", "3", "^", "2">>
    /\ mathExpression.root =
          Joined("^", ConstantNode(F(2)),
                     Joined("^", ConstantNode(F(3)), ConstantNode(F(2))))
    /\ last.out = F(512)

\* A message that ends with the 1-based position of a character of the
\* text, or of its end.
CarriesPosition(message, text) ==
    /\ Len(message) = 2
    /\ message[2] \in 1..(Len(text) + 1)

\* C21: a compile that fails hands back a message carrying the character
\* position of the error, whatever the error: an unexpected character, a
\* malformed number, an unmatched parenthesis, trailing input or the end of
\* the text where a sub-expression was expected.
C21_PositionTagged ==
    (last.op = "compile" /\ ~last.ret) =>
        CarriesPosition(last.error, last.arg.expression)

\* The signal registered under id is a Waveform signal with these settings
\* and sampling the id gives the waveform's value.
SamplesFrom(id, settings) ==
    /\ IsRegistered(id)
    /\ SignalOf(id).kind = "Waveform"
    /\ SignalOf(id).settings = settings
    /\ \A t \in Times :
          sampleSignal(id, t, NaN, 0) = Returned("ok", WaveformSample(settings, t))

\* What a configureOutput call with an id and a name has left: it returned
\* true and sampling the id gives the value of its settings.
C22_Configured ==
    (/\ last.op = "configureOutput"
     /\ Len(last.arg.id) > 0 /\ Len(last.arg.name) > 0) =>
        last.ret /\ SamplesFrom(last.arg.id, last.arg.settings)

\* What a configureOutput call with an id and a name changes: with an id
\* the Function Generator holds, the numbers of outputs and of Workspace
\* signals are as before and the output keeps its place; with a new id one
\* output with that id is appended and the others are as before.
C22_Step ==
    \A config \in OutputConfigs :
        (/\ last'.op = "configureOutput" /\ last'.arg = config
         /\ Len(config.id) > 0 /\ Len(config.name) > 0) =>
            IF findOutput(config.id) # 0
            THEN /\ Len(outputs') = Len(outputs)
                 /\ Len(signals') = Len(signals)
                 /\ outputs'[findOutput(config.id)].id = config.id
            ELSE /\ Len(outputs') = Len(outputs) + 1
                 /\ outputs'[Len(outputs')].id = config.id
                 /\ \A k \in 1..Len(outputs) : outputs'[k].id = outputs[k].id

\* C22: configureOutput with an id and a name is an upsert by id.  With an
\* id the Function Generator holds it returns true, adds no output and no
\* Workspace signal, and sampling the id in the Workspace then gives the
\* value of the new settings; with a new id it returns true, appends one
\* output and a Waveform signal with the settings is registered under the
\* id.
C22_Upsert == []C22_Configured /\ [][C22_Step]_vars

\* C23: configureOutput with an empty id fails with missing_id, and with
\* an id and an empty name fails with missing_name; either way the
\* outputs, the Workspace signal table and the signal objects are as
\* before.
C23_Step ==
    \A config \in GeneratorConfigs :
        (/\ last'.op = "configureOutput" /\ last'.arg = config
         /\ (Len(config.id) = 0 \/ Len(config.name) = 0)) =>
            /\ ~last'.ret
            /\ last'.error = IF Len(config.id) = 0 THEN <<"missing_id">>
                             ELSE <<"missing_name">>
            /\ outputs' = outputs
            /\ signals' = signals
            /\ heap' = heap

C23_MissingField == [][C23_Step]_vars

C23_Witness ==
    /\ last.op = "configureOutput"
    /\ last.error = <<"missing_name">>
    /\ last.arg.settings = Level2
    /\ Len(outputs) = 1
    /\ outputs[1].id = last.arg.id
    /\ outputs[1].name = "out"
    /\ outputs[1].settings = Triangle1

\* Trace ids are unique and every trace has an id and a signalId.
C24_WellFormed ==
    /\ \A i, j \in 1..Len(traces) : traces[i].id = traces[j].id => i = j
    /\ \A i \in 1..Len(traces) :
          Len(traces[i].id) > 0 /\ Len(traces[i].signalId) > 0

\* configureTrace without id or without signalId returns false and changes
\* nothing; with an id a trace has it returns true and replaces that entry
\* where it is; with a new id it returns true and appends the trace.
C24_Step ==
    \A config \in UpsertTraceConfigs :
        (last'.op = "configureTrace" /\ last'.arg = config) =>
            LET i == First({k \in 1..Len(traces) : traces[k].id = config.id})
            IN  IF Len(config.id) = 0 \/ Len(config.signalId) = 0
                THEN ~last'.ret /\ traces' = traces
                ELSE /\ last'.ret
                     /\ IF i # 0
                        THEN /\ Len(traces') = Len(traces)
                             /\ traces'[i] = config
                             /\ \A k \in 1..Len(traces) :
                                   k # i => traces'[k] = traces[k]
                        ELSE /\ Len(traces') = Len(traces) + 1
                             /\ traces'[Len(traces')] = config
                             /\ \A k \in 1..Len(traces) : traces'[k] = traces[k]

\* C24: in every state reachable through configureTrace and removeTrace
\* trace ids are unique and every trace has a non-empty id and signalId;
\* configureTrace with an existing id replaces that entry at the same
\* position without changing the number of traces, with a new id appends
\* one trace, and with an empty id or signalId returns false and changes
\* nothing.
C24_TraceUpsert == []C24_WellFormed /\ [][C24_Step]_vars

C24_Witness ==
    /\ last.op = "configureTrace"
    /\ last.ret
    /\ last.arg = TraceConfig("t1", "a", FALSE)
    /\ traces = <<TraceConfig("t1", "a", FALSE), TraceConfig("t2", "a", TRUE)>>

\* The duty cycle limited to [0.01, 0.99].
LimitedDuty(dutyCycle) ==
    IF FLt(dutyCycle, Rat(1, 100)) THEN Rat(1, 100)
    ELSE IF FGt(dutyCycle, Rat(99, 100)) THEN Rat(99, 100)
    ELSE dutyCycle

\* The place in the period, in [0, 1), of a time.
PhaseAt(settings, time) ==
    LET cycles == FAdd(FMul(settings.frequency, time), settings.phase)
    IN  Rat(cycles[1] % cycles[2], cycles[2])

\* C25: for a Square waveform with a non-zero frequency the duty cycle used
\* is in [0.01, 0.99] whatever dutyCycle is configured, and the sample is
\* offset + amplitude while the wrapped phase is below the duty limited to
\* that interval and offset - amplitude otherwise.
C25_SquareDuty ==
    \A k \in 1..Len(outputs) :
        LET settings == outputs[k].settings
            duty == LimitedDuty(settings.dutyCycle)
        IN  (/\ settings.shape = "Square" /\ ~FEq(settings.frequency, Zero)
             /\ last.op = "sampleSignal" /\ last.arg.id = outputs[k].id) =>
                /\ FGe(SquareDuty(settings.dutyCycle), Rat(1, 100))
                /\ FLe(SquareDuty(settings.dutyCycle), Rat(99, 100))
                /\ last.ret
                /\ last.out =
                      IF FLt(PhaseAt(settings, last.arg.time), duty)
                      THEN FAdd(settings.offset, settings.amplitude)
                      ELSE FSub(settings.offset, settings.amplitude)

\* The signal id a variable stands for under a binding table: the signalId
\* of the first entry for the variable, the variable itself without one.
BoundTo(table, variable) ==
    LET entries == {k \in 1..Len(table) : table[k].variable = variable}
    IN  IF entries = {} THEN variable
        ELSE table[CHOOSE k \in entries : \A j \in entries : k <= j].signalId

\* C26: a variable with an entry in the binding table is resolved only
\* through the signalId of its first entry: the Math signal's sample fails
\* when that signal is not registered, whether or not a signal is
\* registered under the variable's name, and is that signal's sample
\* otherwise; a variable without entry is resolved against the signal
\* whose id is the variable.
C26_BindingFirst ==
    (last.op = "sampleSignal" /\ last.arg.id = "m" /\ IsRegistered("m")) =>
        LET target == BoundTo(SignalOf("m").bindings, "a")
        IN  /\ last.ret = IsRegistered(target)
            /\ last.ret => last.out = SignalOf(target).value

C26_Witness ==
    /\ last.op = "sampleSignal"
    /\ last.arg.id = "m"
    /\ ~last.ret
    /\ IsRegistered("m")
    /\ SignalOf("m").bindings = <<VariableBinding("a", "b")>>
    /\ IsRegistered("a")
    /\ ~IsRegistered("b")

\* The errors of a defineExpression that fails.
DefineFailure(config) ==
    IF Len(config.id) = 0 THEN "missing_id"
    ELSE IF Len(config.name) = 0 THEN "missing_name"
    ELSE IF Len(config.expression) = 0 THEN "missing_expression"
    ELSE "compile_error:"

\* C27: a defineExpression that fails (missing_id, missing_name,
\* missing_expression or compile_error) leaves the Workspace signal table,
\* every signal object and the Math Zone's expression list as they were, so
\* a signal registered under the id keeps its definition and samples as
\* before.
C27_Step ==
    \A config \in ExpressionConfigs :
        (last'.op = "defineExpression" /\ last'.arg = config /\ ~last'.ret) =>
            /\ last'.error[1] = DefineFailure(config)
            /\ signals' = signals
            /\ heap' = heap
            /\ expressionIds' = expressionIds
            /\ outputs' = outputs

C27_FailedDefine == [][C27_Step]_vars

C27_Witness ==
    /\ last.op = "defineExpression"
    /\ ~last.ret
    /\ last.error[1] = "compile_error:"
    /\ IsRegistered(last.arg.id)
    /\ SignalOf(last.arg.id).kind = "Math"
    /\ SignalOf(last.arg.id).expression = <<"b">>
    /\ sampleSignal(last.arg.id, Zero, NaN, 0) = Returned("ok", F(5))

\* C28: no two multimeter inputs share an id, so that once removeInput(id)
\* has returned true a measure on that id fails with unknown_input_<id>.
C28_UniqueInputs ==
    /\ \A i, j \in 1..Len(inputs) : inputs[i].id = inputs[j].id => i = j
    /\ (last.op = "removeInput" /\ last.ret) =>
          LET Failure(r) ==
                  r.st = "fail" /\ r.error = <<"unknown_input_", last.arg.id>>
          IN  Failure(measure(MeasurementRequest(last.arg.id, "DC", Zero, F(4), 1),
                              EmptyMeasurementResult))

\* The signal registered under id is a Constant and samples to value.
IsReference(id, value) ==
    /\ IsRegistered(id)
    /\ SignalOf(id).kind = "Constant"
    /\ sampleSignal(id, Zero, NaN, 0) = Returned("ok", value)

\* C29: after any sequence of requests to the Function Generator, the
\* oscilloscope's traces, the multimeter's inputs and the Math Zone, REF5,
\* REF12 and GND are registered Constant signals that sample to 5, 12
\* and 0.
C29_ReferencesStay ==
    /\ IsReference("REF5", F(5))
    /\ IsReference("REF12", F(12))
    /\ IsReference("GND", Zero)

ReadingCalls == {"sampleSignal", "sampleSignalSeries", "capture", "measure"}

\* A reading call leaves the signal table, the signal objects and the four
\* instruments as they were.
C30_Step ==
    last'.op \in ReadingCalls =>
        /\ signals' = signals
        /\ heap' = heap
        /\ outputs' = outputs
        /\ expressionIds' = expressionIds
        /\ traces' = traces
        /\ inputs' = inputs

\* The reading call made last, made again, returns what it returned.
C30_Repeatable ==
    /\ last.op = "sampleSignal" =>
          LET Same(r) == (r.st = "ok") = last.ret /\ r.out = last.out
          IN  Same(sampleSignal(last.arg.id, last.arg.time, NaN, 0))
    /\ last.op = "sampleSignalSeries" =>
          LET Same(r) == (r.st = "ok") = last.ret /\ r.out = last.out
          IN  Same(sampleSignalSeries(last.arg.id, last.arg.startTime,
                                      last.arg.interval, last.arg.count, <<>>))
    /\ last.op = "capture" =>
          LET Same(r) ==
                  /\ (r.st = "ok") = last.ret
                  /\ r.error = last.error
                  /\ r.result = last.out
          IN  Same(capture(last.arg, EmptyCaptureResult))
    /\ last.op = "measure" =>
          LET Same(r) ==
                  /\ (r.st = "ok") = last.ret
                  /\ r.error = last.error
                  /\ r.result = last.out
          IN  Same(measure(last.arg, EmptyMeasurementResult))

=============================================================================
